---- MODULE Spec2Model ----
(***************************************************************************)
(* A model of the API gateway: the per-service circuit breaker             *)
(* (src/src/circuit-breaker/circuitBreaker.js), the response cache         *)
(* (src/unnamed/part_004, src/src/cache/index.js), the router              *)
(* (src/src/routing/router.js) and the Express pipeline that composes them *)
(* (src/src/apiGateway.js).                                                *)
(*                                                                         *)
(* Time is the value of Date.now() in milliseconds; it advances in steps   *)
(* of TickMs.  Strings that the code inspects character by character       *)
(* (cache keys, paths used as invalidation patterns) are sequences of      *)
(* character codes.                                                        *)
(***************************************************************************)
EXTENDS Integers, Sequences, FiniteSets, TLC

VARIABLES
    now,          \* Date.now()
    circuits,     \* CircuitBreaker.circuits: Map serviceName -> circuit
    calls,        \* requests admitted by the breaker and not yet completed
    nextCall,     \* number of call slots used so far
    last,         \* what the last breaker operation did (observation)
    stats,        \* per service: stats.totalTimeouts
    sinceHalfOpen, \* per service: successes recorded since the circuit last
                   \* entered HALF_OPEN (observation)
    app,          \* the Express application: "gateway" or "example"
    started,      \* the application has been started and is listening
    pc,           \* where the request being handled is
    req,          \* the request being handled
    res,          \* its response
    served,       \* number of requests handled so far
    router,       \* Router: serviceHealth, roundRobinIndex, connectionCounts
    cache,        \* CacheService.initialized, the middleware bound at mount
                  \* time, CacheManager.isConnected, memory and Redis entries
    upstream,     \* outcomes of the upstream calls of the service (observation)
    firstGet,     \* per path: the first upstream answer to a GET (observation)
    dirty,        \* paths invalidated and not stored again (observation)
    quotas,       \* RateLimiter.quotas: Map quotaKey -> bucket
    quotaResult,  \* what the last checkQuota returned (observation)
    admitted,     \* per quota key: the fixed window of the last request of
                  \* the principal and the number admitted in it (observation)
    written,      \* per cache key: the entries set and not deleted since,
                  \* the last one and the last one of each tier (observation)
    observed,     \* what the last operation called on the CacheManager
                  \* itself did (observation)
    healthTimer,  \* Router.healthCheckInterval: when the interval timer
                  \* fires next, -1 before initialize()
    probes,       \* per instance: a health probe is awaiting its answer
    instanceUp,   \* per instance: whether it answers (environment),
                  \* since when it has done so without a failure, and
                  \* whether it was marked unhealthy then
    picked,       \* the last selectInstance(): the instance returned and
                  \* the healthy instances it chose from (observation)
    registry,     \* Router.services (name -> instance list) and the keys of
                  \* Router.serviceHealth, as the management calls leave them
    auth,         \* AuthManager: config, blacklistedTokens, and the tokens
                  \* signed so far
    authResult,   \* what the last call of authenticate() or of an /auth
                  \* route did (observation)
    plugins,      \* PluginManager: initialized, pluginHooks (hook -> the
                  \* plugins with a handler, in order), and the log of the
                  \* handler invocations so far (observation)
    monitoring,   \* MonitoringManager: responses.total, responses.times,
                  \* system.cpuUsage, system.memoryUsage and alerts, each
                  \* entry being the number of the push that added it
    security,     \* SecurityManager: config.whitelistedIPs and
                  \* config.blacklistedIPs, securityViolations (IP -> the
                  \* timestamps of its violations), and what the middleware
                  \* answered last (observation)
    sweepTimer,   \* the time at which the interval timer of
                  \* startMemoryCacheCleanup fires next, -1 while none runs
    shutdown,     \* the steps ApiGateway.stop() has taken, in order
    sinceSuccess  \* per instance, the failures (of a probe or of a proxied
                  \* request) since its last success of either kind

breakerVars == <<circuits, calls, nextCall, last, sinceHalfOpen, stats>>
requestVars == <<pc, req, res, served>>
ghostVars   == <<upstream, firstGet, dirty>>
healthVars  == <<healthTimer, probes, instanceUp, picked>>
lateVars == <<sweepTimer, shutdown, sinceSuccess>>
managerVars == <<registry, auth, authResult, plugins, monitoring, security,
                 lateVars>>
unitVars    == <<quotas, quotaResult, admitted, written, observed, healthVars,
                 managerVars>>
appVars     == <<app, started, pc, req, res, served, router, cache,
                 upstream, firstGet, dirty, unitVars>>

vars == <<now, circuits, calls, nextCall, last, sinceHalfOpen, stats,
          app, started, pc, req, res, served, router, cache,
          upstream, firstGet, dirty, quotas, quotaResult, admitted,
          written, observed, healthTimer, probes, instanceUp, picked,
          registry, auth, authResult, plugins, monitoring, security,
          sweepTimer, shutdown, sinceSuccess>>

----------------------------------------------------------------------------
(* Bounds of the model *)

TickMs == 500
MaxTime == 2000
MaxCalls == 5
MaxRequests == 3
PauseMs == 1000

(* Circuit breaker configuration (config.circuitBreaker) used in the model *)
ErrorThreshold == 50
ErrorCount == 2
ResetTimeout == 1000
HalfOpenRequests == 2
CallTimeout == 1000

Services == {"users"}
CallIds == 1..MaxCalls

----------------------------------------------------------------------------
(* CircuitBreaker *)

\* constructor: this.config (the `||' defaults replace falsy values)
CircuitBreaker_config ==
    [timeout          |-> IF CallTimeout = 0 THEN 5000 ELSE CallTimeout,
     errorThreshold   |-> IF ErrorThreshold = 0 THEN 50 ELSE ErrorThreshold,
     errorCount       |-> IF ErrorCount = 0 THEN 5 ELSE ErrorCount,
     resetTimeout     |-> IF ResetTimeout = 0 THEN 60000 ELSE ResetTimeout,
     halfOpenRequests |-> IF HalfOpenRequests = 0 THEN 3 ELSE HalfOpenRequests]

\* the circuit getCircuit creates for a service it has not seen (the fields
\* no code path reads back, lastFailureTime and the stats entry, are left out)
NewCircuit(t) ==
    [state            |-> "CLOSED",
     failures         |-> 0,
     successes        |-> 0,
     lastStateChange  |-> t,
     halfOpenRequests |-> 0,
     config           |-> CircuitBreaker_config]

\* getCircuit(serviceName): the circuits map after the call
getCircuit(cs, s, t) ==
    IF s \in DOMAIN cs THEN cs ELSE cs @@ (s :> NewCircuit(t))

transitionToOpen(c, t) ==
    [c EXCEPT !.state = "OPEN", !.lastStateChange = t, !.halfOpenRequests = 0]

transitionToHalfOpen(c, t) ==
    [c EXCEPT !.state = "HALF_OPEN", !.lastStateChange = t,
              !.failures = 0, !.successes = 0, !.halfOpenRequests = 0]

transitionToClosed(c, t) ==
    [c EXCEPT !.state = "CLOSED", !.lastStateChange = t,
              !.failures = 0, !.successes = 0, !.halfOpenRequests = 0]

\* recordSuccess without the test of the HALF_OPEN state: closes the circuit
\* from any state once successes reaches halfOpenRequests
recordSuccess_AnyState(c, t) ==
    LET c1 == [c EXCEPT !.successes = c.successes + 1]
        c2 == IF c1.successes >= c1.config.halfOpenRequests
              THEN transitionToClosed(c1, t)
              ELSE c1
    IN  IF c2.state = "CLOSED" THEN [c2 EXCEPT !.failures = 0] ELSE c2

\* recordSuccess with `>' for `>=': one success more is needed to close
recordSuccess_OneMore(c, t) ==
    LET c1 == [c EXCEPT !.successes = c.successes + 1]
        c2 == IF c1.state = "HALF_OPEN"
                 /\ c1.successes > c1.config.halfOpenRequests
              THEN transitionToClosed(c1, t)
              ELSE c1
    IN  IF c2.state = "CLOSED" THEN [c2 EXCEPT !.failures = 0] ELSE c2

\* recordSuccess(serviceName) applied to the service's circuit
recordSuccess(c, t) ==
    LET c1 == [c EXCEPT !.successes = c.successes + 1]
        c2 == IF c1.state = "HALF_OPEN"
                 /\ c1.successes >= c1.config.halfOpenRequests
              THEN transitionToClosed(c1, t)
              ELSE c1
    IN  IF c2.state = "CLOSED" THEN [c2 EXCEPT !.failures = 0] ELSE c2

\* the error-rate test with `>' for `>='
errorRateReached_Strict(c) ==
    c.failures * 100 > c.config.errorThreshold * (c.failures + c.successes)

\* errorRate >= errorThreshold, with
\* errorRate = (failures / (failures + successes)) * 100.  For the
\* threshold of the model the floating-point comparison and the exact one
\* agree (x/(x+y) rounds monotonically and 0.5 * 100 is exact).
errorRateReached(c) ==
    c.failures * 100 >= c.config.errorThreshold * (c.failures + c.successes)

\* recordFailure that applies the CLOSED thresholds in HALF_OPEN too
recordFailure_HalfOpenCounts(c, t) ==
    LET c1 == [c EXCEPT !.failures = c.failures + 1]
    IN  IF c1.state \in {"CLOSED", "HALF_OPEN"}
        THEN IF c1.failures >= c1.config.errorCount
                /\ c1.failures * 100 >=
                       c1.config.errorThreshold * (c1.failures + c1.successes)
             THEN transitionToOpen(c1, t)
             ELSE c1
        ELSE c1

\* recordFailure(serviceName, error) applied to the service's circuit
recordFailure(c, t) ==
    LET c1 == [c EXCEPT !.failures = c.failures + 1]
    IN  IF c1.state = "CLOSED"
        THEN IF c1.failures >= c1.config.errorCount /\ errorRateReached(c1)
             THEN transitionToOpen(c1, t)
             ELSE c1
        ELSE IF c1.state = "HALF_OPEN"
             THEN transitionToOpen(c1, t)
             ELSE c1

\* the reset-window test with `>' for `>='
resetElapsed_Strict(c, t) == t - c.lastStateChange > c.config.resetTimeout

\* the check `Date.now() - circuit.lastStateChange >= resetTimeout'
resetElapsed(c, t) == t - c.lastStateChange >= c.config.resetTimeout

\* rejectRequest: the retryAfter of the 503 body,
\* Math.ceil((resetTimeout - (Date.now() - lastStateChange)) / 1000)
retryAfter(c, t) ==
    LET rem == c.config.resetTimeout - (t - c.lastStateChange)
    IN  IF rem <= 0 THEN -((-rem) \div 1000) ELSE (rem + 999) \div 1000

NoCall == [st |-> "idle", svc |-> "", via |-> "", admittedIn |-> "", start |-> 0]

\* bookkeeping shared by the breaker actions: successes recorded since the
\* circuit entered HALF_OPEN
Observe(s, before, after, recorded) ==
    sinceHalfOpen' =
        [sinceHalfOpen EXCEPT ![s] =
            IF after.state = "HALF_OPEN" /\ before.state # "HALF_OPEN" THEN 0
            ELSE IF recorded THEN @ + 1 ELSE @]

\* middleware(): a request whose service name is s reaches the breaker
CircuitBreaker_middleware(s) ==
    /\ UNCHANGED appVars
    /\ LET cs == getCircuit(circuits, s, now)
           c  == cs[s]
       IN  IF c.state = "OPEN" /\ ~resetElapsed(c, now)
           THEN \* rejectRequest: 503, next() is not called
                /\ circuits' = cs
                /\ last' = [op |-> "middleware", svc |-> s, outcome |-> "rejected",
                            status |-> 503, retryAfter |-> retryAfter(c, now)]
                /\ UNCHANGED <<calls, nextCall, sinceHalfOpen>>
           ELSE /\ nextCall < MaxCalls
                /\ LET c1 == IF c.state = "OPEN" THEN transitionToHalfOpen(c, now) ELSE c
                   IN  /\ circuits' = [cs EXCEPT ![s] = c1]
                       /\ calls' = [calls EXCEPT ![nextCall + 1] =
                                      [st |-> "inflight", svc |-> s, via |-> "middleware",
                                       admittedIn |-> c1.state, start |-> now]]
                       /\ Observe(s, c, c1, FALSE)
                /\ nextCall' = nextCall + 1
                /\ last' = [op |-> "middleware", svc |-> s, outcome |-> "admitted",
                            status |-> 0, retryAfter |-> 0]
    /\ UNCHANGED <<now, stats>>

\* execute(serviceName, fn, fallback) up to the call of fn
CircuitBreaker_execute(s, hasFallback) ==
    /\ UNCHANGED appVars
    /\ LET cs == getCircuit(circuits, s, now)
           c  == cs[s]
           refused == [op |-> "execute", svc |-> s,
                       outcome |-> IF hasFallback THEN "fallback" ELSE "CircuitBreakerError",
                       status |-> 503, retryAfter |-> 0]
       IN  IF c.state = "OPEN" /\ ~resetElapsed(c, now)
           THEN /\ circuits' = cs
                /\ last' = refused
                /\ UNCHANGED <<calls, nextCall, sinceHalfOpen>>
           ELSE LET c1 == IF c.state = "OPEN" THEN transitionToHalfOpen(c, now) ELSE c
                IN  IF c1.state = "HALF_OPEN"
                       /\ c1.halfOpenRequests >= c1.config.halfOpenRequests
                    THEN /\ circuits' = [cs EXCEPT ![s] = c1]
                         /\ last' = refused
                         /\ Observe(s, c, c1, FALSE)
                         /\ UNCHANGED <<calls, nextCall>>
                    ELSE /\ nextCall < MaxCalls
                         /\ LET c2 == IF c1.state = "HALF_OPEN"
                                      THEN [c1 EXCEPT !.halfOpenRequests = @ + 1]
                                      ELSE c1
                            IN  /\ circuits' = [cs EXCEPT ![s] = c2]
                                /\ calls' = [calls EXCEPT ![nextCall + 1] =
                                               [st |-> "inflight", svc |-> s, via |-> "execute",
                                                admittedIn |-> c2.state, start |-> now]]
                                /\ Observe(s, c, c2, FALSE)
                         /\ nextCall' = nextCall + 1
                         /\ last' = [op |-> "execute", svc |-> s, outcome |-> "admitted",
                                     status |-> 0, retryAfter |-> 0]
    /\ UNCHANGED <<now, stats>>

\* execute: fn() resolved before the timer fired
CallSucceeds(id) ==
    /\ UNCHANGED appVars
    /\ calls[id].st = "inflight" /\ calls[id].via = "execute"
    /\ now - calls[id].start <= circuits[calls[id].svc].config.timeout
    /\ LET s == calls[id].svc
           c == circuits[s]
           c1 == recordSuccess(c, now)
       IN  /\ circuits' = [circuits EXCEPT ![s] = c1]
           /\ Observe(s, c, c1, TRUE)
           /\ last' = [op |-> "success", svc |-> s, outcome |-> "result",
                       status |-> 0, retryAfter |-> 0]
    /\ calls' = [calls EXCEPT ![id] = [NoCall EXCEPT !.st = "done"]]
    /\ UNCHANGED <<now, nextCall, stats>>

\* execute: fn() rejected before the timer fired
CallFails(id) ==
    /\ UNCHANGED appVars
    /\ calls[id].st = "inflight" /\ calls[id].via = "execute"
    /\ now - calls[id].start <= circuits[calls[id].svc].config.timeout
    /\ LET s == calls[id].svc
           c == circuits[s]
           c1 == recordFailure(c, now)
       IN  /\ circuits' = [circuits EXCEPT ![s] = c1]
           /\ Observe(s, c, c1, FALSE)
           /\ last' = [op |-> "failure", svc |-> s, outcome |-> "error",
                       status |-> 0, retryAfter |-> 0]
    /\ calls' = [calls EXCEPT ![id] = [NoCall EXCEPT !.st = "done"]]
    /\ UNCHANGED <<now, nextCall, stats>>

\* executeWithTimeout: the timer fired first ('Circuit breaker timeout')
CallTimesOut(id) ==
    /\ UNCHANGED appVars
    /\ calls[id].st = "inflight" /\ calls[id].via = "execute"
    /\ now - calls[id].start >= circuits[calls[id].svc].config.timeout
    /\ LET s == calls[id].svc
           c == circuits[s]
           c1 == recordFailure(c, now)
       IN  /\ circuits' = [circuits EXCEPT ![s] = c1]
           /\ Observe(s, c, c1, FALSE)
           /\ last' = [op |-> "failure", svc |-> s, outcome |-> "timeout",
                       status |-> 0, retryAfter |-> 0]
           /\ stats' = [stats EXCEPT ![s].totalTimeouts = @ + 1]
           /\ calls' = [calls EXCEPT ![id] =
                          [NoCall EXCEPT !.st = "abandoned", !.svc = s]]
    /\ UNCHANGED <<now, nextCall>>

\* resolve(result) or reject(error) of a promise that the timer has already
\* rejected: the promise is settled, nothing is recorded (with a result of
\* fn recorded as a success after all)
lateResult_Recorded(c, t) == recordSuccess(c, t)

\* resolve(result) or reject(error) of a promise that the timer has already
\* rejected: the promise is settled, the call has no effect
lateResult(c, t) == c

\* executeWithTimeout: fn() settles after the timer fired; clearTimeout and
\* resolve or reject run on the settled promise
CallSettlesLate(id) ==
    /\ UNCHANGED appVars
    /\ calls[id].st = "abandoned"
    /\ LET s == calls[id].svc
       IN  /\ circuits' = [circuits EXCEPT ![s] = lateResult(circuits[s], now)]
           /\ last' = [op |-> "late", svc |-> s, outcome |-> "none",
                       status |-> 0, retryAfter |-> 0]
    /\ calls' = [calls EXCEPT ![id] = [NoCall EXCEPT !.st = "done"]]
    /\ UNCHANGED <<now, nextCall, sinceHalfOpen, stats>>

\* a request admitted by the middleware is answered downstream; nothing in
\* the pipeline reports its outcome to the breaker
RequestCompletes(id) ==
    /\ UNCHANGED appVars
    /\ calls[id].st = "inflight" /\ calls[id].via = "middleware"
    /\ calls' = [calls EXCEPT ![id] = [NoCall EXCEPT !.st = "done"]]
    /\ last' = [op |-> "complete", svc |-> calls[id].svc, outcome |-> "none",
                status |-> 0, retryAfter |-> 0]
    /\ UNCHANGED <<now, circuits, nextCall, sinceHalfOpen, stats>>

Tick ==
    /\ now + TickMs <= MaxTime
    /\ now' = now + TickMs
    /\ UNCHANGED <<breakerVars, appVars>>

NoOp == [op |-> "none", svc |-> "", outcome |-> "none", status |-> 0, retryAfter |-> 0]

----------------------------------------------------------------------------
(* Strings.  A path is the sequence of its segments; where the code looks  *)
(* at characters (startsWith, includes, base64) the string is the sequence *)
(* of its character codes.                                                 *)

CharCodes ==
    ("GET"      :> <<71, 69, 84>>) @@
    ("POST"     :> <<80, 79, 83, 84>>) @@
    ("api"      :> <<97, 112, 105>>) @@
    ("users"    :> <<117, 115, 101, 114, 115>>) @@
    ("orders"   :> <<111, 114, 100, 101, 114, 115>>) @@
    ("products" :> <<112, 114, 111, 100, 117, 99, 116, 115>>) @@
    ("search"   :> <<115, 101, 97, 114, 99, 104>>) @@
    ("health"   :> <<104, 101, 97, 108, 116, 104>>) @@
    ("metrics"  :> <<109, 101, 116, 114, 105, 99, 115>>) @@
    ("other"    :> <<111, 116, 104, 101, 114>>) @@
    ("42"       :> <<52, 50>>) @@
    ("a"        :> <<97>>) @@
    ("b"        :> <<98>>) @@
    ("1"        :> <<49>>) @@
    ("2"        :> <<50>>) @@
    ("gateway:" :> <<103, 97, 116, 101, 119, 97, 121, 58>>) @@
    ("example:" :> <<101, 120, 97, 109, 112, 108, 101, 58>>)

RECURSIVE JoinSegments(_)
JoinSegments(p) ==
    IF p = <<>> THEN <<>>
    ELSE <<47>> \o CharCodes[Head(p)] \o JoinSegments(Tail(p))

\* the string of a path: "/" followed by the segments joined by "/"
PathString(p) == IF p = <<>> THEN <<47>> ELSE JoinSegments(p)

\* String.prototype.startsWith
StartsWith(s, pat) == Len(pat) <= Len(s) /\ SubSeq(s, 1, Len(pat)) = pat

\* String.prototype.includes
Includes(s, pat) ==
    \E i \in 0..(Len(s) - Len(pat)) : SubSeq(s, i + 1, i + Len(pat)) = pat

\* the character of the base64 alphabet A-Z a-z 0-9 + / for a 6-bit value
Base64Char(v) ==
    IF v < 26 THEN 65 + v
    ELSE IF v < 52 THEN 97 + (v - 26)
    ELSE IF v < 62 THEN 48 + (v - 52)
    ELSE IF v = 62 THEN 43 ELSE 47

\* Buffer.from(s).toString('base64') for a string of one-byte characters
RECURSIVE Base64(_)
Base64(b) ==
    IF Len(b) = 0 THEN <<>>
    ELSE IF Len(b) = 1
    THEN <<Base64Char(b[1] \div 4), Base64Char((b[1] % 4) * 16), 61, 61>>
    ELSE IF Len(b) = 2
    THEN <<Base64Char(b[1] \div 4),
           Base64Char((b[1] % 4) * 16 + (b[2] \div 16)),
           Base64Char((b[2] % 16) * 4), 61>>
    ELSE <<Base64Char(b[1] \div 4),
           Base64Char((b[1] % 4) * 16 + (b[2] \div 16)),
           Base64Char((b[2] % 16) * 4 + (b[3] \div 64)),
           Base64Char(b[3] % 64)>> \o Base64(SubSeq(b, 4, Len(b)))

\* a path as Express matches it against a mount point
IsPrefix(m, p) == Len(m) <= Len(p) /\ SubSeq(p, 1, Len(m)) = m
StripMount(m, p) == SubSeq(p, Len(m) + 1, Len(p))

----------------------------------------------------------------------------
(* CacheManager and CacheService *)

\* CacheManager constructor: this.config of the gateway (the defaults) and
\* of the example application (its cacheConfig)
CacheManager_config ==
    [gateway |->
        [keyPrefix  |-> "gateway:",
         defaultTTL |-> 300,
         strategies |->
            <<[pattern |-> <<"api", "users">>, ttl |-> 600,
               invalidateOn |-> {"POST", "PUT", "DELETE"}],
              [pattern |-> <<"api", "products">>, ttl |-> 1800,
               invalidateOn |-> {"POST", "PUT", "DELETE"}]>>],
     example |->
        [keyPrefix  |-> "example:",
         defaultTTL |-> 300,
         strategies |->
            <<[pattern |-> <<"api", "products">>, ttl |-> 1800,
               invalidateOn |-> {"POST", "PUT", "DELETE", "PATCH"}],
              [pattern |-> <<"api", "users">>, ttl |-> 600,
               invalidateOn |-> {"POST", "PUT", "DELETE", "PATCH"}],
              [pattern |-> <<"api", "search">>, ttl |-> 180,
               invalidateOn |-> {}]>>]]

cacheableStatusCodes == {200, 201, 203, 300, 301, 302, 304}
cacheableMethods == {"GET", "HEAD"}

\* `null' as the result of a cache lookup
NoValue == [status |-> 0, body |-> 0]

\* the request carries one of the headers authorization, cookie, x-api-key
hasSensitiveHeader(r) == r.cred # "none"

isCacheable(r) == r.method \in cacheableMethods /\ ~hasSensitiveHeader(r)

\* new URLSearchParams(req.query).toString(): the parameters as name=value
\* joined by `&', in the order of the keys of req.query, which is the order
\* in which the (non-numeric) names appear in the URL
RECURSIVE URLSearchParams(_)
URLSearchParams(q) ==
    IF q = <<>> THEN <<>>
    ELSE CharCodes[Head(q)[1]] \o <<61>> \o CharCodes[Head(q)[2]]
            \o (IF Len(q) > 1 THEN <<38>> ELSE <<>>)
            \o URLSearchParams(Tail(q))

\* generateCacheKey(req):
\* keyPrefix + base64(method + ':' + req.path + queryString)
generateCacheKey(a, r) ==
    LET queryString == IF Len(r.query) > 0
                       THEN <<63>> \o URLSearchParams(r.query) ELSE <<>>
    IN  CharCodes[CacheManager_config[a].keyPrefix]
            \o Base64(CharCodes[r.method] \o <<58>> \o PathString(r.mpath)
                          \o queryString)

NoStrategy == [pattern |-> <<>>, ttl |-> 0, invalidateOn |-> {}]

\* the first strategy whose pattern the path string starts with, or null
getCacheStrategy(a, path) ==
    LET ss == CacheManager_config[a].strategies
        S  == {i \in 1..Len(ss) :
                  StartsWith(PathString(path), PathString(ss[i].pattern))}
    IN  IF S = {} THEN NoStrategy
        ELSE ss[CHOOSE i \in S : \A j \in S : i <= j]

Without(f, k) == [x \in DOMAIN f \ {k} |-> f[x]]
With(f, k, v) == (k :> v) @@ f

\* getFromMemory that removes an expired entry from memoryCache only
getFromMemory_ValueOnly(c, key, t) ==
    LET ttl == IF key \in DOMAIN c.memoryTTL THEN c.memoryTTL[key] ELSE 0
    IN  IF ttl # 0 /\ t > ttl
        THEN [value |-> NoValue,
              cache |-> [c EXCEPT !.memoryCache = Without(@, key)]]
        ELSE [value |-> IF key \in DOMAIN c.memoryCache THEN c.memoryCache[key]
                        ELSE NoValue,
              cache |-> c]

\* getFromMemory(key): the value, and the cache after the lookup; the ttl of
\* a key without an entry in memoryTTL is undefined, which is falsy like 0
getFromMemory(c, key, t) ==
    LET ttl == IF key \in DOMAIN c.memoryTTL THEN c.memoryTTL[key] ELSE 0
    IN  IF ttl # 0 /\ t > ttl
        THEN [value |-> NoValue,
              cache |-> [c EXCEPT !.memoryCache = Without(@, key),
                                  !.memoryTTL = Without(@, key)]]
        ELSE [value |-> IF key \in DOMAIN c.memoryCache THEN c.memoryCache[key]
                        ELSE NoValue,
              cache |-> c]

\* setInMemory with the time to live taken as milliseconds
setInMemory_Millis(c, key, value, ttl, t) ==
    [c EXCEPT !.memoryCache = With(@, key, value),
              !.memoryTTL = With(@, key, t + ttl)]

\* setInMemory(key, value, ttl): the expiry is Date.now() + ttl * 1000
setInMemory(c, key, value, ttl, t) ==
    [c EXCEPT !.memoryCache = With(@, key, value),
              !.memoryTTL = With(@, key, t + ttl * 1000)]

\* get(key): Redis while connected (a key set with setEx is gone once its
\* time to live has run out), the memory map otherwise
CacheManager_get(c, key, t) ==
    IF c.isConnected
    THEN [value |-> IF key \in DOMAIN c.redis /\ t < c.redis[key].expiry
                    THEN c.redis[key].value ELSE NoValue,
          cache |-> c]
    ELSE getFromMemory(c, key, t)

\* set(key, value, ttl)
CacheManager_set(a, c, key, value, ttl, t) ==
    LET timeToLive == IF ttl = 0 THEN CacheManager_config[a].defaultTTL ELSE ttl
    IN  IF c.isConnected
        THEN [c EXCEPT !.redis =
                 With(@, key, [value |-> value, expiry |-> t + timeToLive * 1000])]
        ELSE setInMemory(c, key, value, timeToLive, t)

\* the test of invalidate: key.includes(pattern)
keyMatches(key, pattern) == Includes(key, pattern)

\* invalidate(pattern): delete the keys of the tier in use that match
invalidate(c, pattern) ==
    IF c.isConnected
    THEN [c EXCEPT !.redis =
             [k \in {x \in DOMAIN c.redis : ~keyMatches(x, pattern)} |-> c.redis[k]]]
    ELSE LET kept == {x \in DOMAIN c.memoryCache : ~keyMatches(x, pattern)}
         IN  [c EXCEPT
                 !.memoryCache = [k \in kept |-> c.memoryCache[k]],
                 !.memoryTTL =
                     [k \in DOMAIN c.memoryTTL \ (DOMAIN c.memoryCache \ kept) |->
                         c.memoryTTL[k]]]

\* delete(key): from the tier in use
CacheManager_delete(c, key) ==
    IF c.isConnected THEN [c EXCEPT !.redis = Without(@, key)]
    ELSE [c EXCEPT !.memoryCache = Without(@, key),
                   !.memoryTTL = Without(@, key)]

\* flush(): the tier in use is emptied
flush(c) ==
    IF c.isConnected THEN [c EXCEPT !.redis = <<>>]
    ELSE [c EXCEPT !.memoryCache = <<>>, !.memoryTTL = <<>>]

\* handleInvalidation(req), with req.path as it is when the response finishes
handleInvalidation(a, c, r) ==
    LET strategy == getCacheStrategy(a, r.mpath)
    IN  IF strategy # NoStrategy /\ r.method \in strategy.invalidateOn
        THEN invalidate(c, PathString(r.mpath))
        ELSE c

\* cacheResponse(req, res, body, cacheKey)
cacheResponse(a, c, r, status, body, t) ==
    IF status \notin cacheableStatusCodes THEN c
    ELSE LET strategy == getCacheStrategy(a, r.mpath)
             ttl == IF strategy = NoStrategy \/ strategy.ttl = 0
                    THEN CacheManager_config[a].defaultTTL ELSE strategy.ttl
         IN  CacheManager_set(a, c, r.cacheKey,
                              [status |-> status, body |-> body], ttl, t)

\* CacheService.middleware(): what the call returns when the layer is mounted
CacheService_middleware(c) ==
    IF ~c.initialized THEN "passthrough" ELSE "manager"

----------------------------------------------------------------------------
(* Express: the layers of the two applications, in registration order *)

Use(kind, mount) == [kind |-> kind, mount |-> mount, route |-> FALSE, method |-> "*"]
Route(kind, method, path) ==
    [kind |-> kind, mount |-> path, route |-> TRUE, method |-> method]

\* ApiGateway: setupMiddleware, setupRoutes, setupErrorHandling
GatewayLayers ==
    <<Use("helmet", <<>>), Use("cors", <<>>), Use("compression", <<>>),
      Use("cookieParser", <<>>), Use("bodyParser", <<>>),
      Use("requestLogging", <<>>), Use("rateLimiter", <<>>),
      Use("security", <<>>), Use("requestTransformer", <<>>),
      Route("health", "GET", <<"health">>),
      Route("metrics", "GET", <<"metrics">>),
      Use("authenticate", <<"api">>), Use("cache", <<"api">>),
      Use("invalidation", <<"api">>), Use("circuitBreaker", <<"api">>),
      Use("router", <<"api">>), Use("responseTransformer", <<"api">>),
      Use("catchAll", <<>>), Use("responseLogging", <<>>)>>

\* examples/cacheExample.js: demonstrateCache
ExampleLayers ==
    <<Use("bodyParser", <<>>),
      Use("cache", <<"api", "products">>), Use("cache", <<"api", "users">>),
      Use("cache", <<"api", "search">>), Use("invalidation", <<>>),
      Route("getProducts", "GET", <<"api", "products">>),
      Route("postProducts", "POST", <<"api", "products">>)>>

Layers == [gateway |-> GatewayLayers, example |-> ExampleLayers]

\* layers that set or read headers and call next(); they are passed over
HeaderLayers == {"helmet", "cors", "compression", "cookieParser"}

\* a layer is entered when its path matches: a mount point is a prefix of
\* the request path, a route is the whole path and has the request's method
Matches(l, r) ==
    IF l.route THEN r.path = l.mount /\ r.method = l.method
    ELSE IsPrefix(l.mount, r.path)

\* next(): the request at the next matching layer after r.layer (layer 0 when
\* there is none), with req.path relative to the layer's mount point
NextLayer(a, r) ==
    LET ls == Layers[a]
        S  == {j \in (r.layer + 1)..Len(ls) :
                  Matches(ls[j], r) /\ ls[j].kind \notin HeaderLayers}
    IN  IF S = {} THEN [r EXCEPT !.layer = 0, !.mpath = r.path]
        ELSE LET j == CHOOSE x \in S : \A y \in S : x <= y
             IN  [r EXCEPT !.layer = j,
                           !.mpath = IF ls[j].route THEN r.path
                                     ELSE StripMount(ls[j].mount, r.path)]

At(kind) == pc = "layer" /\ Layers[app][req.layer].kind = kind

\* the layer called next()
CallNext(r) ==
    /\ req' = NextLayer(app, r)
    /\ pc' = IF req'.layer = 0 THEN "final" ELSE "layer"

\* the layer called next(error); status 0 is an error without a status
CallNextError(status) ==
    /\ req' = [req EXCEPT !.err = status]
    /\ pc' = "error"

NoReq ==
    [method |-> "", path |-> <<>>, cred |-> "none", serviceName |-> "",
     layer |-> 0, mpath |-> <<>>, err |-> -1, user |-> FALSE,
     atCache |-> FALSE, wrapped |-> FALSE, cacheKey |-> <<>>,
     onFinish |-> FALSE, target |-> "", query |-> <<>>, logged |-> FALSE,
     hookLog |-> 0]

NoRes ==
    [sent |-> 0, status |-> 0, from |-> "", body |-> 0, xCache |-> "",
     retryAfter |-> 0, proxied |-> FALSE, stored |-> FALSE, recorded |-> 0]

\* res.headersSent read as false whatever has been written
headersSent_Never(r) == FALSE

\* res.headersSent
headersSent(r) == r.sent > 0

\* a response written to the socket: res.sent counts the responses emitted
Emit(r, status, from, body) ==
    [r EXCEPT !.sent = @ + 1, !.status = status, !.from = from, !.body = body]

\* res.status(status).json(body): after a cache MISS res.json and res.send
\* are the wrappers that call cacheResponse first; once the response logger
\* has replaced res.send, sending calls monitoringManager.recordResponse
SendJsonWith(r, status, from, body, retry) ==
    /\ res' = [Emit(res, status, from, body) EXCEPT
                  !.retryAfter = retry,
                  !.recorded = IF r.logged THEN @ + 1 ELSE @,
                  !.stored = r.wrapped /\ status \in cacheableStatusCodes]
    /\ cache' = IF r.wrapped
                THEN cacheResponse(app, cache, r, status, body, now)
                ELSE cache
    /\ req' = r
    /\ pc' = "finish"

SendJson(r, status, from, body) == SendJsonWith(r, status, from, body, 0)

----------------------------------------------------------------------------
(* Router *)

\* the instances of the one registered service, in configuration order
Instances == <<"a", "b">>
RegisteredService == "users"

\* registerService: pathPrefix defaults to `/' + name
pathPrefix == <<RegisteredService>>

\* findMatchingService(path): path.startsWith(pattern), the pattern being the
\* route path without its `/*'
findMatchingService(path) ==
    IF StartsWith(PathString(path), PathString(pathPrefix))
    THEN RegisteredService ELSE ""

healthyInstances(rt) ==
    SelectSeq(Instances, LAMBDA i : rt.serviceHealth[i].isHealthy)

roundRobinSelection_First(rt, hs) == hs[1]

\* roundRobinSelection(serviceName, instances)
roundRobinSelection(rt, hs) == hs[(rt.roundRobinIndex % Len(hs)) + 1]

recordInstanceFailure_AtTwo(rt, i) ==
    LET n == rt.serviceHealth[i].consecutiveFailures + 1
    IN  [rt EXCEPT !.serviceHealth[i] =
            [isHealthy |-> IF n >= 2 THEN FALSE ELSE @.isHealthy,
             consecutiveFailures |-> n]]

\* recordInstanceFailure(instanceKey)
recordInstanceFailure(rt, i) ==
    LET n == rt.serviceHealth[i].consecutiveFailures + 1
    IN  [rt EXCEPT !.serviceHealth[i] =
            [isHealthy |-> IF n >= 3 THEN FALSE ELSE @.isHealthy,
             consecutiveFailures |-> n]]

\* checkInstanceHealth(service, instance) once axios.get has settled: ok when
\* it resolved (a status below 500 within healthCheck.timeout)
checkInstanceHealth(rt, i, ok) ==
    IF ok
    THEN [rt EXCEPT !.serviceHealth[i] =
             [isHealthy |-> TRUE, consecutiveFailures |-> 0]]
    ELSE LET n == rt.serviceHealth[i].consecutiveFailures + 1
         IN  [rt EXCEPT !.serviceHealth[i] =
                 [isHealthy |-> IF n >= 3 THEN FALSE ELSE @.isHealthy,
                  consecutiveFailures |-> n]]

\* config.healthCheckInterval and the service's healthCheck.timeout
HealthCheckInterval == 1000
ProbeTimeout == 500

nextCheck_Skip(t) == t + 2 * HealthCheckInterval

\* setInterval(performHealthChecks, config.healthCheckInterval)
nextCheck(t) == t + HealthCheckInterval

----------------------------------------------------------------------------
(* RateLimiter *)

\* the limits of the model
QuotaWindowMs == 1000
PerUserMax == 2
PerApiKeyMax == 3
ApiKeyRequests == 1

\* constructor: this.config.perUser and this.config.perApiKey
RateLimiter_config ==
    [perUser   |-> [windowMs |-> QuotaWindowMs, maxRequests |-> PerUserMax],
     perApiKey |-> [windowMs |-> QuotaWindowMs, maxRequests |-> PerApiKeyMax]]

\* req.user: none before authenticate(), a user authenticated by JWT, one
\* authenticated by an API key that has a rateLimit ('1h' is the window of
\* the keys AuthManager creates), one by an API key without rateLimit
NoUser == [authMethod |-> "none", id |-> "", rateLimit |-> FALSE,
           requests |-> 0, window |-> [type |-> "none", value |-> 0]]
JwtUser == [NoUser EXCEPT !.authMethod = "jwt", !.id = "u1"]
ApiKeyUser ==
    [NoUser EXCEPT !.authMethod = "apikey", !.id = "k1", !.rateLimit = TRUE,
                   !.requests = ApiKeyRequests,
                   !.window = [type |-> "string", value |-> 0]]
PlainKeyUser == [NoUser EXCEPT !.authMethod = "apikey", !.id = "k2"]
Principals == {JwtUser, ApiKeyUser, PlainKeyUser}

\* parseTimeWindow(window): a number is returned as it is; for a string the
\* pattern /(\\d+)([smhd]?)/ asks for a backslash followed by `d's, so '1h'
\* gives null and a string that matches gives NaN; 0 stands for both, as
\* both are replaced by the default under `||'
parseTimeWindow(w) == IF w.type = "number" THEN w.value ELSE 0

\* the quotaKey of checkQuota
quotaKey(u) ==
    <<IF u.authMethod = "apikey" THEN "apikey" ELSE "user", u.id>>

\* the quotaConfig of checkQuota
quotaConfig(u) ==
    IF u.authMethod = "apikey" /\ u.rateLimit
    THEN [windowMs    |-> IF parseTimeWindow(u.window) = 0
                          THEN RateLimiter_config.perApiKey.windowMs
                          ELSE parseTimeWindow(u.window),
          maxRequests |-> IF u.requests = 0
                          THEN RateLimiter_config.perApiKey.maxRequests
                          ELSE u.requests]
    ELSE RateLimiter_config.perUser

\* Math.floor(now / windowMs) * windowMs
windowStartOf(t, windowMs) == (t \div windowMs) * windowMs

\* the bucket checkQuota creates
newQuota(windowStart, cfg) ==
    [requests |-> 0, windowStart |-> windowStart,
     resetTime |-> windowStart + cfg.windowMs, limit |-> cfg.maxRequests]

\* the bucket is kept whenever it exists, whatever its window
sameWindow_Always(qs, k, windowStart) == k \in DOMAIN qs

\* the bucket is kept: it exists and is of the window of now
sameWindow(qs, k, windowStart) ==
    k \in DOMAIN qs /\ qs[k].windowStart = windowStart

\* the test of the limit with one request too many let through
quotaAllowed_OneMore(q) == q.requests <= q.limit + 1

\* allowed = quota.requests <= quota.limit
quotaAllowed(q) == q.requests <= q.limit

\* checkQuota(req): the result and the quotas map after the call.  The
\* function has no await: it runs to its end before another request runs.
checkQuota(qs, u, t) ==
    IF u.authMethod = "none"
    THEN [allowed |-> TRUE, key |-> <<>>, renewed |-> FALSE, quotas |-> qs]
    ELSE LET k   == quotaKey(u)
             cfg == quotaConfig(u)
             ws  == windowStartOf(t, cfg.windowMs)
             q0  == IF sameWindow(qs, k, ws) THEN qs[k] ELSE newQuota(ws, cfg)
             q   == [q0 EXCEPT !.requests = @ + 1]
         IN  [allowed |-> quotaAllowed(q), key |-> k,
              renewed |-> k \in DOMAIN qs /\ ~sameWindow(qs, k, ws),
              quotas  |-> (k :> q) @@ qs]

NoResult == [allowed |-> TRUE, key |-> <<>>, renewed |-> FALSE]

\* the result of checkQuota as the caller sees it
ResultOf(c) == [allowed |-> c.allowed, key |-> c.key, renewed |-> c.renewed]

\* bookkeeping: one more request of the principal u got past the limiter,
\* counted in the fixed window of the time t
Admit(adm, u, t) ==
    LET k  == quotaKey(u)
        ws == windowStartOf(t, quotaConfig(u).windowMs)
        n  == IF k \in DOMAIN adm /\ adm[k].windowStart = ws THEN adm[k].n ELSE 0
    IN  (k :> [windowStart |-> ws, n |-> n + 1]) @@ adm

----------------------------------------------------------------------------
(* The applications *)

Methods == {"GET", "POST"}
Credentials == {"none", "bearer", "badBearer"}
ServiceNameHeaders == {"", "users"}
GatewayPaths ==
    {<<"health">>, <<"metrics">>, <<"api", "users", "42">>,
     <<"api", "orders", "42">>, <<"other">>}
ExamplePaths == {<<"api", "products">>, <<"api", "users">>}
UpstreamStatuses == {200, 500}
Bodies == {1, 2}
BodyParserErrors == {400, 413}

\* the requests sent to the gateway: credentials and the x-service-name
\* header vary where a layer reads them (under /api, the header after
\* authentication) and for GET /metrics, which is for administrators; the
\* valid bearer token is a token of the default user `admin'
GatewayRequests ==
    {r \in [method : Methods, path : GatewayPaths, cred : Credentials,
            serviceName : ServiceNameHeaders] :
        /\ r.path[1] \notin {"api", "metrics"} => r.cred = "none"
        /\ r.path[1] = "metrics" =>
              r.cred = "none" \/ (r.cred = "bearer" /\ r.method = "GET")
        /\ r.cred # "bearer" => r.serviceName = ""}

\* the requests sent to the example application
ExampleRequests ==
    [method : Methods, path : ExamplePaths, cred : {"none", "bearer"},
     serviceName : {""}]

\* ApiGateway.start(): cacheService.initialize (the Redis connection is made
\* or fails), router.initialize, listen
ApiGateway_start(connected) ==
    /\ app = "gateway" /\ ~started
    /\ started' = TRUE
    /\ cache' = [cache EXCEPT !.initialized = TRUE, !.isConnected = connected]
    /\ UNCHANGED <<now, breakerVars, app, requestVars, router, ghostVars, unitVars>>

\* demonstrateCache(): cacheService.initialize, then the layers are mounted
\* and the server listens
Example_start(connected) ==
    /\ app = "example" /\ ~started
    /\ started' = TRUE
    /\ LET c == [cache EXCEPT !.initialized = TRUE, !.isConnected = connected]
       IN  cache' = [c EXCEPT !.mw = CacheService_middleware(c)]
    /\ UNCHANGED <<now, breakerVars, app, requestVars, router, ghostVars, unitVars>>

\* the Redis client's 'connect' and 'error'/'disconnect' events
Redis_connect ==
    /\ started /\ cache.initialized /\ ~cache.isConnected
    /\ cache' = [cache EXCEPT !.isConnected = TRUE]
    /\ UNCHANGED <<now, breakerVars, app, started, requestVars, router, ghostVars, unitVars>>

Redis_disconnect ==
    /\ started /\ cache.initialized /\ cache.isConnected
    /\ cache' = [cache EXCEPT !.isConnected = FALSE]
    /\ UNCHANGED <<now, breakerVars, app, started, requestVars, router, ghostVars, unitVars>>

\* time passes between two requests
Pause ==
    /\ started /\ pc = "idle"
    /\ now + PauseMs <= MaxTime
    /\ now' = now + PauseMs
    /\ UNCHANGED <<breakerVars, appVars>>

\* a request arrives and enters the first layer that matches it
Arrive(r) ==
    /\ started /\ pc = "idle" /\ served < MaxRequests
    /\ CallNext([NoReq EXCEPT !.method = r.method, !.path = r.path,
                              !.cred = r.cred, !.serviceName = r.serviceName,
                              !.hookLog = Len(plugins.log)])
    /\ res' = NoRes
    /\ UNCHANGED <<now, breakerVars, app, started, served, router, cache, ghostVars, unitVars>>

Quiet == UNCHANGED <<now, breakerVars, app, started, served, router, ghostVars, unitVars>>

\* the request logger, the response transformer and the response logger:
\* each calls next(); the response logger first replaces res.send by a
\* function that records the response
Express_passthrough ==
    /\ \E k \in {"requestLogging", "responseTransformer", "responseLogging"} :
          At(k)
    /\ CallNext([req EXCEPT !.logged = @ \/ At("responseLogging")])
    /\ UNCHANGED <<res, cache>> /\ Quiet

\* express.json / express.urlencoded with the size limit: a body that does
\* not parse is next(error) with status 400, one over the limit with 413
Express_bodyParser ==
    /\ At("bodyParser")
    /\ \/ CallNext(req)
       \/ /\ req.method = "POST"
          /\ \E e \in BodyParserErrors : CallNextError(e)
    /\ UNCHANGED <<res, cache>> /\ Quiet

\* RateLimiter.middleware(): the global limiter (express-rate-limit, per
\* client IP) answers 429 or lets the request through; then checkQuota(req),
\* which sees the req.user of this layer, answers 429 when it does not allow
RateLimiter_middleware ==
    /\ At("rateLimiter")
    /\ \/ /\ SendJson(req, 429, "stage", 0)
          /\ UNCHANGED <<quotas, quotaResult>>
       \/ LET c == checkQuota(quotas, IF req.user THEN JwtUser ELSE NoUser, now)
          IN  /\ quotas' = c.quotas
              /\ quotaResult' = ResultOf(c)
              /\ IF c.allowed
                 THEN CallNext(req) /\ UNCHANGED <<res, cache>>
                 ELSE SendJson(req, 429, "stage", 0)
    /\ UNCHANGED <<now, breakerVars, app, started, served, router, ghostVars,
                   admitted, written, observed, healthVars, managerVars>>

\* SecurityManager.middleware(): blockRequest answers 403; an error that is
\* not a SecurityError goes to next(error)
SecurityManager_middleware ==
    /\ At("security")
    /\ \/ CallNext(req) /\ UNCHANGED <<res, cache>>
       \/ SendJson(req, 403, "stage", 0)
       \/ CallNextError(0) /\ UNCHANGED <<res, cache>>
    /\ Quiet

\* RequestTransformer.middleware(): 400 when a transformation throws
RequestTransformer_middleware ==
    /\ At("requestTransformer")
    /\ \/ CallNext(req) /\ UNCHANGED <<res, cache>>
       \/ SendJson(req, 400, "stage", 0)
    /\ Quiet

\* GET /health
Gateway_health ==
    /\ At("health")
    /\ SendJson(req, 200, "health", 0)
    /\ Quiet

\* GET /metrics: requireAdmin() runs without authenticate(), so req.user is
\* not set and the answer is 401
Gateway_metrics ==
    /\ At("metrics")
    /\ IF ~req.user THEN SendJson(req, 401, "stage", 0)
       ELSE SendJson(req, 200, "metrics", 0)
    /\ Quiet

\* AuthManager.authenticate(): no credentials or invalid ones are 401; with
\* valid ones req.user is set
AuthManager_authenticate ==
    /\ At("authenticate")
    /\ IF req.cred = "bearer"
       THEN /\ CallNext([req EXCEPT !.user = TRUE])
            /\ admitted' = Admit(admitted, JwtUser, now)
            /\ UNCHANGED <<res, cache>>
       ELSE /\ SendJson(req, 401, "stage", 0)
            /\ UNCHANGED admitted
    /\ UNCHANGED <<now, breakerVars, app, started, served, router, ghostVars,
                   quotas, quotaResult, written, observed, healthVars, managerVars>>

\* the cache layer: the function CacheService.middleware() returned when the
\* layer was mounted, a pass-through or CacheManager.middleware()
Cache_middleware ==
    /\ At("cache")
    /\ LET r == [req EXCEPT !.atCache = TRUE]
       IN  IF cache.mw = "passthrough" \/ ~isCacheable(r)
           THEN CallNext(r) /\ UNCHANGED <<res, cache>>
           ELSE LET key == generateCacheKey(app, r)
                    got == CacheManager_get(cache, key, now)
                IN  /\ cache' = got.cache
                    /\ IF got.value # NoValue
                       THEN \* hit: the cached response is sent
                            /\ res' = [Emit(res, IF got.value.status = 0 THEN 200
                                                 ELSE got.value.status,
                                            "cache", got.value.body)
                                          EXCEPT !.xCache = "HIT"]
                            /\ req' = r
                            /\ pc' = "finish"
                       ELSE \* miss: res.send and res.json are wrapped
                            /\ res' = [res EXCEPT !.xCache = "MISS"]
                            /\ CallNext([r EXCEPT !.wrapped = TRUE,
                                                  !.cacheKey = key])
    /\ Quiet

\* CacheService.invalidationMiddleware(): registers the 'finish' listener
Cache_invalidationMiddleware ==
    /\ At("invalidation")
    /\ IF ~cache.initialized THEN CallNext(req)
       ELSE CallNext([req EXCEPT !.onFinish = TRUE])
    /\ UNCHANGED <<res, cache>> /\ Quiet

\* getServiceName(req): from req.path, else the x-service-name header
getServiceName(r) ==
    IF Len(r.mpath) >= 2 /\ r.mpath[1] = "api" THEN r.mpath[2]
    ELSE r.serviceName

\* CircuitBreaker.middleware() as the layer of the gateway
Gateway_circuitBreaker ==
    /\ At("circuitBreaker")
    /\ LET s == getServiceName(req)
       IN  IF s = ""
           THEN CallNext(req) /\ UNCHANGED <<res, cache, circuits>>
           ELSE LET cs == getCircuit(circuits, s, now)
                    c  == cs[s]
                IN  IF c.state = "OPEN" /\ ~resetElapsed(c, now)
                    THEN /\ circuits' = cs
                         /\ SendJsonWith(req, 503, "stage", 0, retryAfter(c, now))
                    ELSE /\ circuits' =
                               [cs EXCEPT ![s] = IF c.state = "OPEN"
                                                 THEN transitionToHalfOpen(c, now)
                                                 ELSE c]
                         /\ CallNext(req)
                         /\ UNCHANGED <<res, cache>>
    /\ UNCHANGED <<now, calls, nextCall, last, sinceHalfOpen, stats, app, started,
                   served, router, ghostVars, unitVars>>

\* Router.middleware() up to the call of the proxy
Router_middleware ==
    /\ At("router")
    /\ IF findMatchingService(req.mpath) = ""
       THEN SendJson(req, 404, "stage", 0) /\ UNCHANGED router
       ELSE LET hs == healthyInstances(router)
            IN  IF Len(hs) = 0
                THEN SendJson(req, 503, "stage", 0) /\ UNCHANGED router
                ELSE LET i == roundRobinSelection(router, hs)
                     IN  /\ router' =
                               [router EXCEPT !.roundRobinIndex = @ + 1,
                                              !.connectionCounts[i] = @ + 1]
                         /\ req' = [req EXCEPT !.target = i]
                         /\ pc' = "proxy"
                         /\ UNCHANGED <<res, cache>>
    /\ UNCHANGED <<now, breakerVars, app, started, served, ghostVars, unitVars>>

\* the outcome of an upstream call as the service's circuit would count it
Record(failed) ==
    upstream' =
        IF failed
        THEN [upstream EXCEPT !.failures = @ + 1, !.lastFailure = now]
        ELSE [failures |-> 0, succeeded |-> TRUE, lastFailure |-> 0]

\* the proxy rewrites req.url (pathRewrite strips the path prefix)
Rewritten(r) ==
    [r EXCEPT !.mpath = IF IsPrefix(pathPrefix, r.mpath)
                        THEN StripMount(pathPrefix, r.mpath) ELSE r.mpath]

\* the upstream answered: the proxy pipes status, headers and body to the
\* client (it does not go through res.send or res.json)
Proxy_response(status, body) ==
    /\ pc = "proxy"
    /\ res' = [Emit(res, status, "upstream", body) EXCEPT !.proxied = TRUE]
    /\ req' = Rewritten(req)
    /\ pc' = "finish"
    /\ Record(status >= 500)
    /\ UNCHANGED <<now, breakerVars, app, started, served, router, cache,
                   firstGet, dirty, unitVars>>

\* the upstream call failed, before any answer or after the answer had begun
\* to be piped: onError records the instance failure and answers 502 unless
\* the headers are sent
Proxy_error(afterHeaders, status, body) ==
    /\ pc = "proxy"
    /\ router' = recordInstanceFailure(router, req.target)
    /\ LET r1 == IF afterHeaders THEN Emit(res, status, "upstream", body)
                 ELSE res
           r2 == IF ~headersSent(r1) THEN Emit(r1, 502, "stage", 0) ELSE r1
       IN  res' = [r2 EXCEPT !.proxied = TRUE]
    /\ req' = Rewritten(req)
    /\ pc' = "finish"
    /\ Record(TRUE)
    /\ UNCHANGED <<now, breakerVars, app, started, served, cache,
                   firstGet, dirty, unitVars>>

\* app.use('*'): 404 for a path no route answered
Gateway_catchAll ==
    /\ At("catchAll")
    /\ SendJson(req, 404, "stage", 0)
    /\ Quiet

\* error.status || 500
ErrorStatus(e) == IF e = 0 THEN 500 ELSE e

\* the global error handler
Gateway_errorHandler ==
    /\ app = "gateway" /\ pc = "error"
    /\ SendJson(req, ErrorStatus(req.err), "errorHandler", 0)
    /\ Quiet

\* app.get('/api/products'): 200 with the product list and a timestamp
Example_getProducts(body) ==
    /\ At("getProducts")
    /\ SendJson(req, 200, "handler", body)
    /\ Quiet

\* app.post('/api/products'): 201
Example_postProducts(body) ==
    /\ At("postProducts")
    /\ SendJson(req, 201, "handler", body)
    /\ Quiet

\* Express's final handler: 404 when no layer answered, the error's status
\* (or 500) for an error no handler took
Express_finalhandler ==
    /\ app = "example" /\ pc \in {"final", "error"}
    /\ SendJson(req, IF pc = "final" THEN 404 ELSE ErrorStatus(req.err),
                "final", 0)
    /\ Quiet

\* the request's path falls under the pattern of the request q's strategy
UnderStrategyOf(p, q) ==
    LET strategy == getCacheStrategy(app, q)
    IN  /\ strategy # NoStrategy
        /\ StartsWith(PathString(p), PathString(strategy.pattern))

\* no first answer recorded for a path
NoFirst == [status |-> 0, body |-> 0]

Invalidates(r) ==
    LET strategy == getCacheStrategy(app, r.path)
    IN  strategy # NoStrategy /\ r.method \in strategy.invalidateOn

\* the response is finished: the 'finish' listener of the invalidation layer
\* runs handleInvalidation, and the application is ready for a new request
Finish ==
    /\ pc = "finish"
    /\ cache' = IF req.onFinish THEN handleInvalidation(app, cache, req)
                ELSE cache
    /\ firstGet' =
          IF Invalidates(req)
          THEN [p \in DOMAIN firstGet |->
                   IF UnderStrategyOf(p, req.path) THEN NoFirst ELSE firstGet[p]]
          ELSE IF /\ req.method = "GET" /\ req.path \in DOMAIN firstGet
                  /\ firstGet[req.path] = NoFirst
                  /\ req.atCache /\ res.sent = 1
                  /\ res.status \in cacheableStatusCodes
               THEN [firstGet EXCEPT ![req.path] =
                        [status |-> res.status, body |-> res.body]]
               ELSE firstGet
    /\ dirty' =
          IF Invalidates(req) /\ res.sent = 1 /\ res.status \in {200, 201}
          THEN dirty \cup {p \in DOMAIN firstGet : UnderStrategyOf(p, req.path)}
          ELSE IF res.stored THEN dirty \ {req.path} ELSE dirty
    /\ pc' = "idle"
    /\ req' = NoReq
    /\ res' = NoRes
    /\ served' = served + 1
    /\ UNCHANGED <<now, breakerVars, app, started, router, upstream, unitVars>>

\* nothing has been called on the CacheManager itself
NoObserved ==
    [op |-> "none", key |-> <<>>, value |-> NoValue, req |-> NoReq,
     status |-> 0, cacheControl |-> "", outcome |-> "", stored |-> FALSE,
     tier |-> ""]

\* no entry set for a key, or for a key in a tier
NoEntry == [value |-> NoValue, until |-> 0]

ApiPaths == {p \in GatewayPaths \cup ExamplePaths : p[1] = "api"}

\* the state after construction of the application a, before it is started
\* AuthManager constructor: enableApiKeys and enableJWT default to true,
\* enableBasicAuth to false
DefaultAuthConfig ==
    [enableApiKeys |-> TRUE, enableJWT |-> TRUE, enableBasicAuth |-> FALSE]

NoToken == [userId |-> "", iat |-> -1]
NoCredentials == [apiKey |-> "none", scheme |-> "none", token |-> NoToken,
                  basic |-> "none"]
NoAuthResult ==
    [op |-> "none", creds |-> NoCredentials, status |-> 0, authMethod |-> "",
     old |-> NoToken, new |-> NoToken]

\* no call of the plugin manager has been followed yet
NoRun == [op |-> "none", hookName |-> "", context |-> <<>>]

\* the client addresses, and no request seen by the security middleware
ClientIPs == {"ip1", "ip2"}
NoBlock == [ip |-> "", status |-> 0, threats |-> 0, listed |-> FALSE]

InitApp(a) ==
    /\ now = 0
    /\ circuits = <<>>
    /\ calls = [id \in CallIds |-> NoCall]
    /\ nextCall = 0
    /\ last = NoOp
    /\ sinceHalfOpen = [s \in Services |-> 0]
    /\ stats = [s \in Services |-> [totalTimeouts |-> 0]]
    /\ app = a
    /\ started = FALSE
    /\ pc = "idle"
    /\ req = NoReq
    /\ res = NoRes
    /\ served = 0
    /\ router = [serviceHealth |->
                    [i \in {"a", "b"} |->
                        [isHealthy |-> TRUE, consecutiveFailures |-> 0]],
                 roundRobinIndex |-> 0,
                 connectionCounts |-> [i \in {"a", "b"} |-> 0]]
    /\ LET c == [initialized |-> FALSE, mw |-> "unmounted",
                 isConnected |-> FALSE, memoryCache |-> <<>>,
                 memoryTTL |-> <<>>, redis |-> <<>>]
       IN  \* the gateway's constructor mounts the layers (setupRoutes)
           cache = IF a = "gateway"
                   THEN [c EXCEPT !.mw = CacheService_middleware(c)]
                   ELSE c
    /\ upstream = [failures |-> 0, succeeded |-> FALSE, lastFailure |-> 0]
    /\ firstGet = [p \in ApiPaths |-> NoFirst]
    /\ dirty = {}
    /\ quotas = <<>>
    /\ quotaResult = NoResult
    /\ admitted = <<>>
    /\ written = <<>>
    /\ observed = NoObserved
    /\ healthTimer = -1
    /\ probes = [i \in {"a", "b"} |-> FALSE]
    /\ instanceUp = [i \in {"a", "b"} |->
                        [up |-> TRUE, since |-> 0, unhealthyThen |-> FALSE]]
    /\ picked = [last |-> "", from |-> <<>>]
    /\ registry = [services |-> <<>>, serviceHealth |-> {}]
    /\ auth = [constructed |-> FALSE, config |-> DefaultAuthConfig,
               blacklistedTokens |-> {}, signed |-> {}]
    /\ authResult = NoAuthResult
    /\ plugins = [initialized |-> FALSE, pluginHooks |-> <<>>, log |-> <<>>,
                  loadedPlugins |-> {}, gone |-> {},
                  run |-> NoRun]
    /\ monitoring = [total |-> 0, times |-> <<>>, cpuUsage |-> <<>>,
                     memoryUsage |-> <<>>, alerts |-> <<>>, pushed |-> 0]
    /\ security = [constructed |-> FALSE, whitelistedIPs |-> {},
                   blacklistedIPs |-> {},
                   securityViolations |-> [ip \in ClientIPs |-> <<>>],
                   last |-> NoBlock,
                   lastIndex |-> <<0, 0, 0>>, verdicts |-> {}]
    /\ sweepTimer = -1
    /\ shutdown = <<>>
    /\ sinceSuccess = [i \in {"a", "b"} |-> 0]

Init == InitApp("gateway")

Next ==
    \/ Tick
    \/ \E s \in Services : CircuitBreaker_middleware(s)
    \/ \E s \in Services, fb \in BOOLEAN : CircuitBreaker_execute(s, fb)
    \/ \E id \in CallIds : CallSucceeds(id)
    \/ \E id \in CallIds : CallFails(id)
    \/ \E id \in CallIds : CallTimesOut(id)
    \/ \E id \in CallIds : RequestCompletes(id)

Spec == Init /\ [][Next]_vars

\* calls through execute alone, with the late results of abandoned calls
NextExecute ==
    \/ Tick
    \/ \E s \in Services, fb \in BOOLEAN : CircuitBreaker_execute(s, fb)
    \/ \E id \in CallIds : CallSucceeds(id)
    \/ \E id \in CallIds : CallFails(id)
    \/ \E id \in CallIds : CallTimesOut(id)
    \/ \E id \in CallIds : CallSettlesLate(id)

SpecExecute == Init /\ [][NextExecute]_vars

\* the gateway handling requests, one at a time
NextPipeline ==
    \/ Pause
    \/ \E connected \in BOOLEAN : ApiGateway_start(connected)
    \/ \E r \in GatewayRequests : Arrive(r)
    \/ Express_passthrough
    \/ Express_bodyParser
    \/ RateLimiter_middleware
    \/ SecurityManager_middleware
    \/ RequestTransformer_middleware
    \/ Gateway_health
    \/ Gateway_metrics
    \/ AuthManager_authenticate
    \/ Cache_middleware
    \/ Cache_invalidationMiddleware
    \/ Gateway_circuitBreaker
    \/ Router_middleware
    \/ \E s \in UpstreamStatuses, b \in Bodies : Proxy_response(s, b)
    \/ \E h \in BOOLEAN, s \in UpstreamStatuses, b \in Bodies : Proxy_error(h, s, b)
    \/ Gateway_catchAll
    \/ Gateway_errorHandler
    \/ Finish

SpecPipeline == Init /\ [][NextPipeline]_vars

InitExample == InitApp("example")

\* the example application of the cache handling requests, one at a time
NextCache ==
    \/ Pause
    \/ \E connected \in BOOLEAN : Example_start(connected)
    \/ Redis_connect
    \/ Redis_disconnect
    \/ \E r \in ExampleRequests : Arrive(r)
    \/ Express_bodyParser
    \/ Cache_middleware
    \/ Cache_invalidationMiddleware
    \/ \E b \in Bodies : Example_getProducts(b)
    \/ \E b \in Bodies : Example_postProducts(b)
    \/ Express_finalhandler
    \/ Finish

SpecCache == InitExample /\ [][NextCache]_vars

\* checkQuota(req) for a request whose req.user is u
RateLimiter_checkQuota(u) ==
    /\ LET c == checkQuota(quotas, u, now)
       IN  /\ u # NoUser => c.quotas[c.key].requests <= MaxCalls
           /\ quotas' = c.quotas
           /\ quotaResult' = ResultOf(c)
           /\ admitted' = IF u # NoUser /\ c.allowed
                          THEN Admit(admitted, u, now) ELSE admitted
    /\ UNCHANGED <<now, breakerVars, app, started, requestVars, router, cache,
                   ghostVars, written, observed, healthVars, managerVars>>

\* the rate limiter's quota check called for requests of the principals as
\* time passes
NextQuota ==
    \/ Tick
    \/ \E u \in Principals \cup {NoUser} : RateLimiter_checkQuota(u)

SpecQuota == Init /\ [][NextQuota]_vars

\* keys, values, times to live (seconds; 0 is `no ttl given') and patterns
\* of the operations called on the manager
StoreKeys == {CharCodes["users"]}
StoreValues == {[status |-> 200, body |-> 1], [status |-> 200, body |-> 2]}
StoreTTLs == {0, 1}
StorePatterns == {CharCodes["users"], CharCodes["other"]}

\* the tier get, set, delete, invalidate and flush work on
ActiveTier == IF cache.isConnected THEN "redis" ELSE "memory"

StoreQuiet ==
    UNCHANGED <<now, breakerVars, app, started, requestVars, router, ghostVars,
                quotas, quotaResult, admitted, healthVars, managerVars>>

\* cacheService.manager.set(key, value, ttl)
Manager_set(key, value, ttl) ==
    /\ started
    /\ cache' = CacheManager_set(app, cache, key, value, ttl, now)
    /\ LET timeToLive == IF ttl = 0 THEN CacheManager_config[app].defaultTTL
                         ELSE ttl
           e == [value |-> value, until |-> now + timeToLive * 1000]
           w == IF key \in DOMAIN written THEN written[key]
                ELSE [last |-> NoEntry, memory |-> NoEntry, redis |-> NoEntry]
       IN  written' = With(written, key,
                           [[w EXCEPT ![ActiveTier] = e] EXCEPT !.last = e])
    /\ observed' = [NoObserved EXCEPT !.op = "set", !.key = key, !.value = value]
    /\ StoreQuiet

\* cacheService.manager.get(key)
Manager_get(key) ==
    /\ started
    /\ LET got == CacheManager_get(cache, key, now)
       IN  /\ cache' = got.cache
           /\ observed' = [NoObserved EXCEPT !.op = "get", !.key = key,
                                             !.value = got.value,
                                             !.tier = ActiveTier]
    /\ UNCHANGED written
    /\ StoreQuiet

\* cacheService.manager.delete(key)
Manager_delete(key) ==
    /\ started
    /\ cache' = CacheManager_delete(cache, key)
    /\ written' = Without(written, key)
    /\ observed' = [NoObserved EXCEPT !.op = "delete", !.key = key]
    /\ StoreQuiet

\* cacheService.invalidate(pattern)
Manager_invalidate(pattern) ==
    /\ started
    /\ cache' = invalidate(cache, pattern)
    /\ written' = [k \in {x \in DOMAIN written : ~keyMatches(x, pattern)} |->
                      written[k]]
    /\ observed' = [NoObserved EXCEPT !.op = "invalidate", !.key = pattern]
    /\ StoreQuiet

\* cacheService.flush()
Manager_flush ==
    /\ started
    /\ cache' = flush(cache)
    /\ written' = <<>>
    /\ observed' = [NoObserved EXCEPT !.op = "flush"]
    /\ StoreQuiet

\* the operations of the CacheManager called on it directly, as the external
\* store connects and disconnects and time passes
NextStore ==
    \/ Tick
    \/ \E connected \in BOOLEAN : Example_start(connected)
    \/ Redis_connect
    \/ Redis_disconnect
    \/ \E k \in StoreKeys, v \in StoreValues, ttl \in StoreTTLs : Manager_set(k, v, ttl)
    \/ \E k \in StoreKeys : Manager_get(k)
    \/ \E k \in StoreKeys : Manager_delete(k)
    \/ \E pat \in StorePatterns : Manager_invalidate(pat)
    \/ Manager_flush

SpecStore == InitExample /\ [][NextStore]_vars

\* the requests given to the manager's middleware and the answers of the
\* handler behind it
UnitQueries ==
    {<<<<"a", "1">>, <<"b", "2">>>>, <<<<"b", "2">>, <<"a", "1">>>>}
UnitRequests ==
    [method : Methods, path : {<<"api", "products">>},
     cred : {"none", "bearer"}, query : UnitQueries]
CacheControls == {"", "no-store"}

\* the req object of a request given to the middleware
AsRequest(r) ==
    [NoReq EXCEPT !.method = r.method, !.path = r.path, !.mpath = r.path,
                  !.cred = r.cred, !.query = r.query]

\* CacheManager.middleware() called with the request r, the handler behind
\* it answering res.status(status).set('Cache-Control', cc).json(body)
Manager_middleware(r, status, cc, body) ==
    /\ started
    /\ LET rq == AsRequest(r)
           o  == [NoObserved EXCEPT !.op = "middleware", !.req = rq,
                                    !.status = status, !.cacheControl = cc]
       IN  IF ~isCacheable(rq)
           THEN /\ observed' = [o EXCEPT !.outcome = "BYPASS"]
                /\ UNCHANGED cache
           ELSE LET key == generateCacheKey(app, rq)
                    got == CacheManager_get(cache, key, now)
                    c1  == cacheResponse(app, got.cache,
                                         [rq EXCEPT !.cacheKey = key],
                                         status, body, now)
                IN  IF got.value # NoValue
                    THEN /\ observed' = [o EXCEPT !.outcome = "HIT", !.key = key,
                                                  !.value = got.value,
                                                  !.status = got.value.status]
                         /\ cache' = got.cache
                    ELSE /\ observed' = [o EXCEPT !.outcome = "MISS", !.key = key,
                                                  !.stored = (c1 # got.cache)]
                         /\ cache' = c1
    /\ UNCHANGED written
    /\ StoreQuiet

\* the manager's middleware in front of a handler
NextMiddleware ==
    \/ \E connected \in BOOLEAN : Example_start(connected)
    \/ Redis_connect
    \/ Redis_disconnect
    \/ \E r \in UnitRequests, s \in UpstreamStatuses, cc \in CacheControls :
          Manager_middleware(r, s, cc, 1)

SpecMiddleware == InitExample /\ [][NextMiddleware]_vars

----------------------------------------------------------------------------
(* The router by itself: health checks and instance selection *)

InstanceKeys == {Instances[n] : n \in DOMAIN Instances}

\* proxy failures recorded and selections made in one behaviour
MaxFailures == 4
MaxSelections == 4

HealthQuiet ==
    UNCHANGED <<breakerVars, app, requestVars, cache, ghostVars,
                quotas, quotaResult, admitted, written, observed, managerVars>>

\* a probe sent by the last performHealthChecks has reached its timeout
Overdue(i) ==
    /\ probes[i]
    /\ now >= healthTimer - HealthCheckInterval + ProbeTimeout

\* a timer callback or a probe's answer is due at this instant
Due == (healthTimer >= 0 /\ now >= healthTimer) \/ \E i \in InstanceKeys : Overdue(i)

\* Router.initialize(): start the interval timer and run the first
\* performHealthChecks, which sends a probe to every instance
Router_initialize ==
    /\ ~started
    /\ started' = TRUE
    /\ healthTimer' = nextCheck(now)
    /\ probes' = [i \in InstanceKeys |-> TRUE]
    /\ UNCHANGED <<now, router, instanceUp, picked>>
    /\ HealthQuiet

\* the interval timer fires: performHealthChecks sends a probe to every
\* instance (healthCheck.enabled is true for the service)
Router_performHealthChecks ==
    /\ started /\ healthTimer >= 0 /\ now >= healthTimer
    /\ \A i \in InstanceKeys : ~probes[i]
    /\ healthTimer' = nextCheck(healthTimer)
    /\ probes' = [i \in InstanceKeys |-> TRUE]
    /\ UNCHANGED <<now, started, router, instanceUp, picked>>
    /\ HealthQuiet

\* the probe of instance i settles: axios.get resolves when the instance
\* answers, rejects (error, status >= 500 or timeout) when it does not
Router_checkInstanceHealth(i) ==
    /\ probes[i]
    /\ probes' = [probes EXCEPT ![i] = FALSE]
    /\ router' = checkInstanceHealth(router, i, instanceUp[i].up)
    /\ UNCHANGED <<now, started, healthTimer, instanceUp, picked>>
    /\ HealthQuiet

\* the proxy's onError for a request sent to instance i
Router_recordInstanceFailure(i) ==
    /\ started
    /\ router.serviceHealth[i].consecutiveFailures < MaxFailures
    /\ router' = recordInstanceFailure(router, i)
    /\ instanceUp' = [instanceUp EXCEPT ![i].since = now,
                                        ![i].unhealthyThen =
                                            ~router'.serviceHealth[i].isHealthy]
    /\ UNCHANGED <<now, started, healthTimer, probes, picked>>
    /\ HealthQuiet

\* the instance stops answering
Instance_down(i) ==
    /\ started /\ instanceUp[i].up
    /\ instanceUp' = [instanceUp EXCEPT ![i].up = FALSE]
    /\ UNCHANGED <<now, started, router, healthTimer, probes, picked>>
    /\ HealthQuiet

\* the instance answers again, from now on
Instance_recovers(i) ==
    /\ started /\ ~instanceUp[i].up
    /\ instanceUp' = [instanceUp EXCEPT ![i] =
                          [up |-> TRUE, since |-> now,
                           unhealthyThen |-> ~router.serviceHealth[i].isHealthy]]
    /\ UNCHANGED <<now, started, router, healthTimer, probes, picked>>
    /\ HealthQuiet

\* time passes, once the callbacks due now have run
Health_tick ==
    /\ ~Due
    /\ Tick

NextHealth ==
    \/ Health_tick
    \/ Router_initialize
    \/ Router_performHealthChecks
    \/ \E i \in InstanceKeys : Router_checkInstanceHealth(i)
    \/ \E i \in InstanceKeys : Router_recordInstanceFailure(i)
    \/ \E i \in InstanceKeys : Instance_down(i)
    \/ \E i \in InstanceKeys : Instance_recovers(i)

SpecHealth == Init /\ [][NextHealth]_vars

\* selectInstance(service, req) for the roundRobin service
Router_selectInstance ==
    /\ started
    /\ router.roundRobinIndex < MaxSelections
    /\ LET hs == healthyInstances(router)
       IN  IF Len(hs) = 0
           THEN /\ picked' = [last |-> "", from |-> hs]
                /\ UNCHANGED router
           ELSE /\ picked' = [last |-> roundRobinSelection(router, hs),
                              from |-> hs]
                /\ router' = [router EXCEPT !.roundRobinIndex = @ + 1]
    /\ UNCHANGED <<now, started, healthTimer, probes, instanceUp>>
    /\ HealthQuiet

\* selections as instances fail, are marked unhealthy and probed again
NextBalance ==
    \/ Router_initialize
    \/ Router_selectInstance
    \/ \E i \in InstanceKeys : Router_checkInstanceHealth(i)
    \/ \E i \in InstanceKeys : Router_recordInstanceFailure(i)
    \/ \E i \in InstanceKeys : Instance_down(i)
    \/ \E i \in InstanceKeys : Instance_recovers(i)

SpecBalance == Init /\ [][NextBalance]_vars


----------------------------------------------------------------------------
(* Properties of the circuit breaker *)

Circuit(s) == circuits[s]
Known == DOMAIN circuits

\* this step is an admission attempt (middleware or execute) for service s
RequestFor(s) ==
    /\ now' = now /\ last'.op \in {"middleware", "execute"} /\ last'.svc = s

\* this step records a failure (error or timeout) of a call of service s
FailureRecordedOn(s) == last'.op = "failure" /\ last'.svc = s /\ calls' # calls

\* this step admits a new request toward the upstream
Admits == \E id \in CallIds : calls[id].st = "idle" /\ calls'[id].st = "inflight"

\* C1 (breaker monotonicity): a circuit that is OPEN stays OPEN, with the
\* same lastStateChange, under every admission attempt and every completion
\* of a call in flight; the only step that takes it out of OPEN leaves it
\* HALF_OPEN and happens when at least resetTimeout has elapsed since
\* lastStateChange.
C1_BreakerMonotonic ==
    [][\A s \in Known :
          Circuit(s).state = "OPEN" =>
             \/ /\ circuits'[s].state = "OPEN"
                /\ circuits'[s].lastStateChange = Circuit(s).lastStateChange
             \/ /\ circuits'[s].state = "HALF_OPEN"
                /\ now - Circuit(s).lastStateChange >= Circuit(s).config.resetTimeout]_vars

\* a call in flight completed successfully while its circuit was OPEN, and
\* the circuit is still OPEN
C1_Witness ==
    \E s \in Known :
        /\ Circuit(s).state = "OPEN" /\ last.op = "success" /\ last.svc = s
        /\ now - Circuit(s).lastStateChange < Circuit(s).config.resetTimeout

\* C2: a CLOSED circuit becomes OPEN exactly on a recorded failure after
\* which failures >= errorCount and failures/(failures+successes)*100 >=
\* errorThreshold; any other step, and a failure that misses one of the two
\* conditions, leaves it CLOSED.
C2_ClosedToOpen ==
    [][\A s \in Known :
          LET c == Circuit(s)
              f == c.failures + 1
              both == /\ f >= c.config.errorCount
                      /\ f * 100 >= c.config.errorThreshold * (f + c.successes)
          IN  c.state = "CLOSED" =>
                /\ circuits'[s].state \in {"CLOSED", "OPEN"}
                /\ circuits'[s].state = "OPEN" <=> (FailureRecordedOn(s) /\ both)]_vars

\* a failure has just opened a circuit whose counters meet both conditions
C2_Witness ==
    \E s \in Known :
        /\ Circuit(s).state = "OPEN" /\ last.op = "failure" /\ last.svc = s
        /\ Circuit(s).lastStateChange = now
        /\ Circuit(s).failures >= Circuit(s).config.errorCount
        /\ Circuit(s).successes >= 1

\* C3: a request (middleware or execute) for a service whose circuit is OPEN
\* is refused without a call to the upstream and without a change to the
\* circuit while less than resetTimeout has elapsed since lastStateChange
\* (503 from the middleware, CircuitBreakerError or the fallback from
\* execute); at or after lastStateChange + resetTimeout it moves the circuit
\* to HALF_OPEN and is admitted.
C3_OpenRejectsThenHalfOpen ==
    [][\A s \in Known :
          (Circuit(s).state = "OPEN" /\ RequestFor(s)) =>
             IF now - Circuit(s).lastStateChange < Circuit(s).config.resetTimeout
             THEN /\ ~Admits
                  /\ calls' = calls
                  /\ circuits'[s] = Circuit(s)
                  /\ \/ last'.op = "middleware" /\ last'.outcome = "rejected"
                                               /\ last'.status = 503
                     \/ last'.op = "execute"
                        /\ last'.outcome \in {"CircuitBreakerError", "fallback"}
             ELSE /\ circuits'[s].state = "HALF_OPEN"
                  /\ circuits'[s].lastStateChange = now
                  /\ last'.outcome = "admitted"
                  /\ Admits]_vars

\* the first request after the reset window has just been admitted and has
\* moved the circuit to HALF_OPEN
C3_Witness ==
    \E s \in Known :
        /\ Circuit(s).state = "HALF_OPEN" /\ Circuit(s).lastStateChange = now
        /\ last.op \in {"middleware", "execute"} /\ last.outcome = "admitted"
        /\ last.svc = s

\* C4: a HALF_OPEN circuit is CLOSED by the success that brings the number
\* of successes recorded since it entered HALF_OPEN to halfOpenRequests, not
\* by an earlier one and not by any other step; the closed circuit has
\* failures, successes and halfOpenRequests at 0.
C4_HalfOpenToClosed ==
    /\ [](\A s \in Known :
            Circuit(s).state = "HALF_OPEN" =>
                sinceHalfOpen[s] < Circuit(s).config.halfOpenRequests)
    /\ [][\A s \in Known :
            (Circuit(s).state = "HALF_OPEN" /\ circuits'[s].state = "CLOSED") =>
                /\ last'.op = "success" /\ last'.svc = s
                /\ sinceHalfOpen'[s] = Circuit(s).config.halfOpenRequests
                /\ circuits'[s].failures = 0
                /\ circuits'[s].successes = 0
                /\ circuits'[s].halfOpenRequests = 0]_vars

\* the halfOpenRequests-th success since HALF_OPEN has just closed a circuit
C4_Witness ==
    \E s \in Known :
        /\ Circuit(s).state = "CLOSED" /\ last.op = "success" /\ last.svc = s
        /\ Circuit(s).lastStateChange = now
        /\ sinceHalfOpen[s] = Circuit(s).config.halfOpenRequests
        /\ Circuit(s).successes = 0

\* C5: a failure recorded while the circuit is HALF_OPEN leaves it OPEN with
\* lastStateChange at the time of the failure, whatever the number of
\* successes recorded in HALF_OPEN before it.
C5_HalfOpenFailureOpens ==
    [][\A s \in Known :
          (Circuit(s).state = "HALF_OPEN" /\ FailureRecordedOn(s)) =>
              /\ circuits'[s].state = "OPEN"
              /\ circuits'[s].lastStateChange = now]_vars

\* a failure that followed a success in HALF_OPEN has just re-opened the
\* circuit
C5_Witness ==
    \E s \in Known :
        /\ Circuit(s).state = "OPEN" /\ last.op = "failure" /\ last.svc = s
        /\ Circuit(s).lastStateChange = now
        /\ Circuit(s).failures = 1
        /\ sinceHalfOpen[s] >= 1

\* requests of service s now on their way to the upstream that were admitted
\* while its circuit was HALF_OPEN
HalfOpenProbes(s) ==
    {id \in CallIds : /\ calls[id].st = "inflight" /\ calls[id].svc = s
                      /\ calls[id].admittedIn = "HALF_OPEN"}

\* C6: while a circuit is HALF_OPEN, at most halfOpenRequests requests
\* admitted in HALF_OPEN are on their way to the upstream at the same time.
C6_HalfOpenLimit ==
    \A s \in Known :
        Circuit(s).state = "HALF_OPEN" =>
            Cardinality(HalfOpenProbes(s)) <= Circuit(s).config.halfOpenRequests

----------------------------------------------------------------------------
(* Properties of the gateway pipeline and of the cache *)

\* C7: once the upstream calls made through the pipeline for the service
\* have failed errorCount times in a row with no success before them (the
\* error rate is 100), no request for the service is forwarded to the
\* upstream until resetTimeout has elapsed since the last failure: the
\* circuit is open and the request is answered 503.
C7_FailuresOpenCircuit ==
    (/\ upstream.failures >= CircuitBreaker_config.errorCount
     /\ ~upstream.succeeded
     /\ now - upstream.lastFailure < CircuitBreaker_config.resetTimeout)
    => pc # "proxy"

TimeToLive(path) ==
    LET strategy == getCacheStrategy(app, path)
    IN  1000 * (IF strategy = NoStrategy \/ strategy.ttl = 0
                THEN CacheManager_config[app].defaultTTL ELSE strategy.ttl)

C10_NoHitAfterInvalidation ==
    (pc = "finish" /\ res.xCache = "HIT") => req.path \notin dirty

\* C11: a GET under /api with a valid bearer token is cached.  The first
\* such GET of a path that reaches the upstream is marked X-Cache: MISS, and
\* once one has been answered with a cacheable status every further one
\* within the path's time to live is answered 200 with X-Cache: HIT and
\* without a call to the upstream.
C11_BearerGetIsCached ==
    (/\ pc = "finish" /\ req.method = "GET" /\ req.cred = "bearer"
     /\ req.user /\ req.atCache /\ req.path \in DOMAIN firstGet)
    => IF firstGet[req.path] = NoFirst
       THEN res.proxied => res.xCache = "MISS"
       ELSE now < TimeToLive(req.path) =>
               /\ res.status = 200
               /\ res.xCache = "HIT"
               /\ ~res.proxied

----------------------------------------------------------------------------
(* Properties of the rate limiter *)

\* the principal of a quota key, its limit and its window
PrincipalOf(k) == CHOOSE u \in Principals : quotaKey(u) = k
LimitOf(k) == quotaConfig(PrincipalOf(k)).maxRequests
WindowOf(k) == quotaConfig(PrincipalOf(k)).windowMs

\* C15 (quota conservation): for every quota key, the number of requests
\* checkQuota has admitted in the fixed window of the key's last request
\* never exceeds the limit of the key.
C15_QuotaConservation ==
    \A k \in DOMAIN admitted : admitted[k].n <= LimitOf(k)

\* the limit of a key has just been used up: the request that brought the
\* admitted count to the limit was allowed and the next one was refused
C15_Witness ==
    /\ ~quotaResult.allowed
    /\ quotaResult.key \in DOMAIN admitted
    /\ admitted[quotaResult.key].n = LimitOf(quotaResult.key)
    /\ quotas[quotaResult.key].requests > LimitOf(quotaResult.key)
    /\ quotas[quotaResult.key].windowStart = admitted[quotaResult.key].windowStart

\* this step is a checkQuota for the key k (every call adds one to requests)
Touches(k) ==
    /\ quotas' # quotas /\ quotaResult'.key = k /\ k \in DOMAIN quotas

\* C16: a checkQuota that finds the bucket of its key with a window that
\* has ended (now - windowStart >= windowMs) leaves the bucket with
\* windowStart = floor(now / windowMs) * windowMs and with this request as
\* the only one counted, and allows the request when the limit is >= 1.
C16_LazyWindowReset ==
    [][\A k \in DOMAIN quotas :
          (Touches(k) /\ now - quotas[k].windowStart >= WindowOf(k)) =>
              /\ quotas'[k].windowStart = (now \div WindowOf(k)) * WindowOf(k)
              /\ quotas'[k].resetTime = quotas'[k].windowStart + WindowOf(k)
              /\ quotas'[k].requests = 1
              /\ quotas'[k].limit >= 1 => quotaResult'.allowed]_vars

\* the bucket of an earlier window has just been renewed by the first
\* request of a later window, which was allowed
C16_Witness ==
    /\ quotaResult.renewed /\ quotaResult.allowed
    /\ quotas[quotaResult.key].requests = 1
    /\ quotas[quotaResult.key].windowStart > 0
    /\ quotas[quotaResult.key].windowStart + WindowOf(quotaResult.key) > now

\* C17: in the pipeline a request of an authenticated principal that comes
\* when the principal has used up its quota for the current window (limit
\* requests of the principal got past the rate limiter in the window before
\* it) is answered 429.
C17_ExhaustedQuotaIs429 ==
    (/\ pc = "finish" /\ req.user
     /\ quotaKey(JwtUser) \in DOMAIN admitted
     /\ admitted[quotaKey(JwtUser)].n > LimitOf(quotaKey(JwtUser)))
    => res.status = 429

----------------------------------------------------------------------------
(* Properties of the CacheManager *)

C13_StoredIff ==
    (observed.op = "middleware" /\ observed.outcome # "HIT")
    => (observed.stored <=>
           /\ observed.req.method \in cacheableMethods
           /\ observed.status \in cacheableStatusCodes
           /\ ~hasSensitiveHeader(observed.req)
           /\ observed.cacheControl \notin {"no-cache", "no-store", "private"})

\* the same parameters, in any order
SameParameters(q1, q2) ==
    /\ Len(q1) = Len(q2)
    /\ {q1[i] : i \in DOMAIN q1} = {q2[i] : i \in DOMAIN q2}

\* C14: the key the cache middleware used for a request is the key of every
\* request with the same method, the same path and the same query
\* parameters in any order.
C14_KeyIgnoresQueryOrder ==
    (observed.op = "middleware" /\ observed.outcome # "BYPASS")
    => \A r \in UnitRequests :
          (/\ r.method = observed.req.method /\ r.path = observed.req.path
           /\ SameParameters(r.query, observed.req.query))
          => generateCacheKey(app, AsRequest(r)) = observed.key

----------------------------------------------------------------------------
(* Properties of the router *)

Health(i) == router.serviceHealth[i]

Successor(hs, i) ==
    LET n == CHOOSE k \in DOMAIN hs : hs[k] = i
    IN  hs[(n % Len(hs)) + 1]

\* C20: under roundRobin a selection returns an instance that is healthy;
\* while the list of healthy instances is the one of the selection before,
\* it returns the instance after the one returned before, cyclically in list
\* order; the first selection returns the first healthy instance.
C20_RoundRobin ==
    [][router'.roundRobinIndex = router.roundRobinIndex + 1 =>
          LET hs == healthyInstances(router)
          IN  /\ \E n \in DOMAIN hs : hs[n] = picked'.last
              /\ Health(picked'.last).isHealthy
              /\ router.roundRobinIndex = 0 => picked'.last = hs[1]
              /\ (picked.last # "" /\ picked.from = hs)
                 => picked'.last = Successor(hs, picked.last)]_vars

\* four selections with both instances healthy have returned a, b, a, b
C20_Witness ==
    /\ router.roundRobinIndex = 2 * Len(Instances)
    /\ picked = [last |-> "b", from |-> Instances]
    /\ \A i \in InstanceKeys : Health(i).consecutiveFailures = 0

\* C21: the connection count of an instance is the number of requests
\* dispatched to it that have not completed: 1 while the request being
\* handled is with the proxy of that instance, 0 otherwise.
C21_LiveConnections ==
    \A i \in InstanceKeys :
        router.connectionCounts[i] =
            IF pc = "proxy" /\ req.target = i THEN 1 ELSE 0

----------------------------------------------------------------------------
(* The router's service registry *)

ServiceNames == {"users", "orders"}
RegistryKeys == {"a", "b", "c"}

\* instance lists of a service configuration: at most two instances
InstanceLists ==
    {<<>>} \cup {<<i>> : i \in RegistryKeys}
           \cup {l \in RegistryKeys \X RegistryKeys : l[1] # l[2]}

\* what a newConfig may carry: an instance list, or none
NoInstances == <<"none">>

KeysOf(list) == {list[n] : n \in DOMAIN list}

RegistryQuiet == UNCHANGED <<now, breakerVars, app, started, requestVars, router,
                            cache, ghostVars, quotas, quotaResult, admitted,
                            written, observed, healthVars, auth, authResult,
                            plugins, monitoring, security, lateVars>>

\* registerService(name, serviceConfig)
Router_registerService(name, instances) ==
    /\ registry' = [services |-> With(registry.services, name, instances),
                    serviceHealth |-> registry.serviceHealth \cup KeysOf(instances)]
    /\ RegistryQuiet

\* addServiceInstance(serviceName, instance): throws for an unknown service
\* and for an instance the service lists already
Router_addServiceInstance(name, i) ==
    /\ name \in DOMAIN registry.services
    /\ i \notin KeysOf(registry.services[name])
    /\ Len(registry.services[name]) < 2
    /\ registry' = [services |-> [registry.services EXCEPT ![name] = Append(@, i)],
                    serviceHealth |-> registry.serviceHealth \cup {i}]
    /\ RegistryQuiet

\* removeServiceInstance(serviceName, instanceKey)
Router_removeServiceInstance(name, i) ==
    /\ name \in DOMAIN registry.services
    /\ registry' = [services |->
                       [registry.services EXCEPT ![name] =
                           SelectSeq(@, LAMBDA k : k # i)],
                    serviceHealth |-> registry.serviceHealth \ {i}]
    /\ RegistryQuiet

\* updateServiceConfig(serviceName, newConfig): Object.assign(service, newConfig)
Router_updateServiceConfig(name, instances) ==
    /\ name \in DOMAIN registry.services
    /\ registry' = [registry EXCEPT !.services[name] =
                       IF instances = NoInstances THEN @ ELSE instances]
    /\ RegistryQuiet

NextRegistry ==
    \/ \E name \in ServiceNames, l \in InstanceLists : Router_registerService(name, l)
    \/ \E name \in ServiceNames, i \in RegistryKeys : Router_addServiceInstance(name, i)
    \/ \E name \in ServiceNames, i \in RegistryKeys : Router_removeServiceInstance(name, i)
    \/ \E name \in ServiceNames, l \in InstanceLists \cup {NoInstances} :
          Router_updateServiceConfig(name, l)

SpecRegistry == Init /\ [][NextRegistry]_vars

\* C22: every instance listed by a service has an entry in the health table.
C22_ListedHasHealth ==
    \A name \in DOMAIN registry.services :
        KeysOf(registry.services[name]) \subseteq registry.serviceHealth

\* C25: GET /metrics with the valid credentials of a principal that holds the
\* admin permission, when it reaches its route, is answered 200.
C25_AdminReadsMetrics ==
    (/\ pc = "finish" /\ req.method = "GET" /\ req.path = <<"metrics">>
     /\ req.cred = "bearer"
     /\ req.layer > 0 /\ GatewayLayers[req.layer].kind = "metrics")
    => res.status = 200

----------------------------------------------------------------------------
(* AuthManager *)

\* the user logging in: the default user `admin' (id 1)
LoginUser == "1"

\* jwt.sign of generateToken(user): the payload is the user's id, name, role
\* and permissions and iat = floor(Date.now() / 1000), the expiry is iat + 24h
\* and the signature is an HMAC of these, so the token is a function of the
\* user and of the second in which it was signed
generateToken(userId, t) == [userId |-> userId, iat |-> t \div 1000]

\* a bearer token that jwt.verify rejects
BadToken == [userId |-> "?", iat |-> -1]

\* the credentials a request may carry: the x-api-key header (none, the key
\* of an active API key, any other value) and the Authorization header (none,
\* Bearer with a token signed earlier or with another string, Basic with the
\* right or a wrong password)
CredentialsOf(a) ==
    {c \in [apiKey : {"none", "valid", "bad"},
            scheme : {"none", "Bearer", "Basic"},
            token  : a.signed \cup {BadToken, NoToken},
            basic  : {"none", "valid", "bad"}] :
        /\ c.scheme = "Bearer" <=> c.token # NoToken
        /\ c.scheme = "Basic" <=> c.basic # "none"}

\* the result of one authentication method: null, an Error thrown, a user
Null == [kind |-> "null", authMethod |-> ""]
Throw == [kind |-> "throw", authMethod |-> ""]
User(m) == [kind |-> "user", authMethod |-> m]

\* authenticateApiKey(req)
authenticateApiKey(a, c) ==
    IF c.apiKey = "none" THEN Null
    ELSE IF c.apiKey # "valid" THEN Throw
    ELSE User("apikey")

\* authenticateJWT(req)
authenticateJWT(a, c) ==
    IF c.scheme # "Bearer" THEN Null
    ELSE IF c.token \in a.blacklistedTokens THEN Throw
    ELSE IF c.token \notin a.signed THEN Throw
    ELSE User("jwt")

\* authenticateBasic(req)
authenticateBasic(a, c) ==
    IF c.scheme # "Basic" THEN Null
    ELSE IF c.basic # "valid" THEN Throw
    ELSE User("basic")

\* an invalid API key counted as no API key
authenticate_FallThrough(a, c) ==
    LET u1 == IF a.config.enableApiKeys /\ c.apiKey = "valid"
              THEN User("apikey") ELSE Null
        u2 == IF u1 = Null /\ a.config.enableJWT
              THEN authenticateJWT(a, c) ELSE u1
        u3 == IF u2 = Null /\ a.config.enableBasicAuth
              THEN authenticateBasic(a, c) ELSE u2
    IN  u3

\* authenticate(): the body of the try block; a throw of a method leaves the
\* block at once
authenticate(a, c) ==
    LET u1 == IF a.config.enableApiKeys THEN authenticateApiKey(a, c) ELSE Null
        u2 == IF u1 = Null /\ a.config.enableJWT
              THEN authenticateJWT(a, c) ELSE u1
        u3 == IF u2 = Null /\ a.config.enableBasicAuth
              THEN authenticateBasic(a, c) ELSE u2
    IN  u3

AuthQuiet == UNCHANGED <<breakerVars, app, started, requestVars, router, cache,
                         ghostVars, quotas, quotaResult, admitted, written,
                         observed, healthVars, registry, plugins, monitoring,
                         security, lateVars>>

\* new AuthManager(config)
AuthManager_constructor(cfg) ==
    /\ ~auth.constructed
    /\ auth' = [auth EXCEPT !.constructed = TRUE, !.config = cfg]
    /\ UNCHANGED <<now, authResult>>
    /\ AuthQuiet

\* POST /auth/login with the user's name and password
Auth_login ==
    /\ auth.constructed
    /\ LET token == generateToken(LoginUser, now)
       IN  /\ auth' = [auth EXCEPT !.signed = @ \cup {token}]
           /\ authResult' = [NoAuthResult EXCEPT !.op = "login", !.status = 200,
                                                 !.new = token]
    /\ UNCHANGED now
    /\ AuthQuiet

\* a request with the credentials c at a route behind authenticate() alone
\* (GET /auth/profile): 401 when no method gave a user or one threw
Auth_authenticate(c) ==
    /\ auth.constructed
    /\ LET u == authenticate(auth, c)
       IN  authResult' = [NoAuthResult EXCEPT
                             !.op = "authenticate", !.creds = c,
                             !.status = IF u.kind = "user" THEN 200 ELSE 401,
                             !.authMethod = u.authMethod]
    /\ UNCHANGED <<now, auth>>
    /\ AuthQuiet

\* POST /auth/refresh with the credentials c
Auth_refresh(c) ==
    /\ auth.constructed
    /\ LET u == authenticate(auth, c)
           newToken == generateToken(c.token.userId, now)
       IN  IF u.kind # "user"
           THEN /\ authResult' = [NoAuthResult EXCEPT !.op = "refresh",
                                     !.creds = c, !.status = 401]
                /\ UNCHANGED auth
           ELSE IF u.authMethod # "jwt"
           THEN /\ authResult' = [NoAuthResult EXCEPT !.op = "refresh",
                                     !.creds = c, !.status = 400,
                                     !.authMethod = u.authMethod]
                /\ UNCHANGED auth
           ELSE /\ auth' = [auth EXCEPT
                               !.signed = @ \cup {newToken},
                               !.blacklistedTokens = @ \cup {c.token}]
                /\ authResult' = [NoAuthResult EXCEPT !.op = "refresh",
                                     !.creds = c, !.status = 200,
                                     !.authMethod = "jwt",
                                     !.old = c.token, !.new = newToken]
    /\ UNCHANGED now
    /\ AuthQuiet

NextAuth ==
    \/ Tick
    \/ \E cfg \in [enableApiKeys : BOOLEAN, enableJWT : BOOLEAN,
                  enableBasicAuth : BOOLEAN] : AuthManager_constructor(cfg)
    \/ Auth_login
    \/ \E c \in CredentialsOf(auth) : Auth_authenticate(c)
    \/ \E c \in CredentialsOf(auth) : Auth_refresh(c)

SpecAuth == Init /\ [][NextAuth]_vars

\* the methods in the order of the claim, and the first enabled one whose
\* credential the request carries
AuthOrder == <<"apikey", "jwt", "basic">>
Enabled(m) ==
    CASE m = "apikey" -> auth.config.enableApiKeys
      [] m = "jwt"    -> auth.config.enableJWT
      [] m = "basic"  -> auth.config.enableBasicAuth
Present(m, c) ==
    CASE m = "apikey" -> c.apiKey # "none"
      [] m = "jwt"    -> c.scheme = "Bearer"
      [] m = "basic"  -> c.scheme = "Basic"
ValidCredential(m, c) ==
    CASE m = "apikey" -> c.apiKey = "valid"
      [] m = "jwt"    -> c.token \in auth.signed \ auth.blacklistedTokens
      [] m = "basic"  -> c.basic = "valid"
Deciding(c) ==
    {n \in DOMAIN AuthOrder :
        /\ Enabled(AuthOrder[n]) /\ Present(AuthOrder[n], c)
        /\ \A k \in 1..(n - 1) : ~(Enabled(AuthOrder[k]) /\ Present(AuthOrder[k], c))}

C24_RefreshRotates ==
    /\ (authResult.op = "refresh" /\ authResult.status = 200)
       => /\ authResult.old \in auth.blacklistedTokens
          /\ authResult.new \notin auth.blacklistedTokens
    /\ (/\ authResult.op = "authenticate"
        /\ authResult.creds.token \in auth.blacklistedTokens)
       => authResult.authMethod # "jwt"

----------------------------------------------------------------------------
(* The order of the stages and the response records *)

\* the stages in the order of the claim
StageOrder ==
    <<"security", "rateLimiter", "requestTransformer", "authenticate", "cache",
      "circuitBreaker", "router", "responseTransformer">>

\* the layer of the stage has been entered by this request: Express enters
\* the matching layers in the order of registration
Ran(kind) ==
    \E j \in 1..(req.layer - 1) :
        GatewayLayers[j].kind = kind /\ Matches(GatewayLayers[j], req)

\* C27: while a request is in one of the stages Security, RateLimit,
\* RequestTransform, Auth, Cache, CircuitBreaker, Router, ResponseTransform,
\* no stage that comes later in this order has run for it; in particular the
\* rate limiter has not run when the security filter decides.
C27_StageOrder ==
    (app = "gateway" /\ pc = "layer") =>
        \A n \in DOMAIN StageOrder : \A m \in DOMAIN StageOrder :
            (n < m /\ GatewayLayers[req.layer].kind = StageOrder[n])
                => ~Ran(StageOrder[m])

\* C28: when a request of the gateway is finished, exactly one response
\* record has been added to the monitoring metrics for it.
C28_OneResponseRecord ==
    (app = "gateway" /\ pc = "finish") => res.recorded = 1

----------------------------------------------------------------------------
(* PluginManager *)

\* initializeHooks: the hooks of a request's way through the gateway (the
\* hooks of authentication, routing, cache, startup and shutdown are left out)
Hooks == {"beforeRequest", "afterRequest", "beforeResponse", "afterResponse",
          "onError"}

\* the files of the plugin directory, in the order of readdirSync, and the
\* hook methods each plugin defines
PluginFiles == <<"analyticsTracker", "requestLogger", "securityHeaders">>
HookMethods ==
    [analyticsTracker |-> {"beforeRequest", "afterResponse", "onError"},
     requestLogger    |-> {"beforeRequest", "afterResponse", "onError"},
     securityHeaders  |-> {"beforeResponse", "onError"}]

\* the number of handler invocations the log keeps
MaxInvocations == 5

\* registerPluginHooks(name, plugin)
registerPluginHooks(hooks, name) ==
    [h \in DOMAIN hooks |->
        IF h \in HookMethods[name] THEN Append(hooks[h], name) ELSE hooks[h]]

\* loadAllPlugins: loadPlugin for the first n files
RECURSIVE loadAllPlugins(_, _)
loadAllPlugins(hooks, n) ==
    IF n = 0 THEN hooks
    ELSE registerPluginHooks(loadAllPlugins(hooks, n - 1), PluginFiles[n])

\* executeHook(hookName, context): the handlers it invokes, in order; a
\* handler that throws is logged and the next one is invoked
executeHook(p, hookName) ==
    IF ~p.initialized \/ hookName \notin DOMAIN p.pluginHooks THEN <<>>
    ELSE [n \in DOMAIN p.pluginHooks[hookName] |->
             <<hookName, p.pluginHooks[hookName][n]>>]

PluginQuiet == UNCHANGED <<now, breakerVars, app, started, requestVars, router,
                           cache, ghostVars, quotas, quotaResult, admitted,
                           written, observed, healthVars, registry, auth,
                           authResult, monitoring, security, lateVars>>

\* pluginManager.initialize()
PluginManager_initialize ==
    /\ ~plugins.initialized
    /\ plugins' = [plugins EXCEPT
                      !.initialized = TRUE,
                      !.pluginHooks = loadAllPlugins([h \in Hooks |-> <<>>],
                                                     Len(PluginFiles)),
                      !.loadedPlugins =
                          @ \cup {PluginFiles[n] : n \in DOMAIN PluginFiles},
                      !.gone = {},
                      !.run = NoRun]
    /\ PluginQuiet

\* executeHook(hookName, context) called by the program that embeds the
\* plugin service, between two requests
PluginManager_executeHook(hookName) ==
    /\ pc = "idle"
    /\ Len(plugins.log) + Len(executeHook(plugins, hookName)) <= MaxInvocations
    /\ plugins' = [plugins EXCEPT !.log = @ \o executeHook(plugins, hookName)]
    /\ PluginQuiet

\* the gateway handling its first request
FirstRequest == served = 0 /\ NextPipeline

NextHooks ==
    \/ PluginManager_initialize
    \/ \E h \in Hooks : PluginManager_executeHook(h)
    \/ FirstRequest

SpecHooks == Init /\ [][NextHooks]_vars

\* C26: when a request of the gateway is finished, whatever answered it,
\* every handler registered with the plugin engine for a hook has been
\* invoked since the request arrived.
C26_HooksInvoked ==
    (app = "gateway" /\ pc = "finish") =>
        \A h \in DOMAIN plugins.pluginHooks :
            \A n \in DOMAIN plugins.pluginHooks[h] :
                \E k \in (req.hookLog + 1)..Len(plugins.log) :
                    plugins.log[k] = <<h, plugins.pluginHooks[h][n]>>

----------------------------------------------------------------------------
(* MonitoringManager *)

\* the capacities of the series (1000 response times, 100 samples of each
\* kind, 100 alerts in the source), scaled, and the number of pushes followed
ResponseTimesCap == 3
SamplesCap == 2
AlertsCap == 2
MaxPushes == 7

\* the series evicting its newest entry when it is over its capacity
keepLast_DropNewest(s, cap) == IF Len(s) > cap THEN SubSeq(s, 1, cap) ELSE s

\* if (series.length > cap) series.shift()
keepLast(s, cap) == IF Len(s) > cap THEN Tail(s) ELSE s

\* createAlert(type, data)
createAlert(m) ==
    [m EXCEPT !.alerts = keepLast(Append(@, m.pushed + 1), AlertsCap),
              !.pushed = @ + 1]

\* recordResponse(req, res, responseTime); checkResponseTimeAlert creates an
\* alert for a response time over the threshold
recordResponse(m, slow) ==
    LET m1 == [m EXCEPT !.total = @ + 1,
                        !.times = keepLast(Append(@, m.pushed + 1),
                                           ResponseTimesCap),
                        !.pushed = @ + 1]
    IN  IF slow THEN createAlert(m1) ELSE m1

\* the callback of startSystemMetrics; checkSystemAlerts creates an alert for
\* a CPU usage and one for a memory usage over its threshold
systemMetrics(m, cpuHigh, memoryHigh) ==
    LET m1 == [m EXCEPT !.cpuUsage = keepLast(Append(@, m.pushed + 1), SamplesCap),
                        !.memoryUsage = keepLast(Append(@, m.pushed + 2), SamplesCap),
                        !.pushed = @ + 2]
        m2 == IF cpuHigh THEN createAlert(m1) ELSE m1
    IN  IF memoryHigh THEN createAlert(m2) ELSE m2

MonitoringQuiet == UNCHANGED <<now, breakerVars, app, started, requestVars,
                               router, cache, ghostVars, quotas, quotaResult,
                               admitted, written, observed, healthVars,
                               registry, auth, authResult, plugins, security,
                               lateVars>>

MonitoringManager_recordResponse(slow) ==
    /\ recordResponse(monitoring, slow).pushed <= MaxPushes
    /\ monitoring' = recordResponse(monitoring, slow)
    /\ MonitoringQuiet

MonitoringManager_systemMetrics(cpuHigh, memoryHigh) ==
    /\ systemMetrics(monitoring, cpuHigh, memoryHigh).pushed <= MaxPushes
    /\ monitoring' = systemMetrics(monitoring, cpuHigh, memoryHigh)
    /\ MonitoringQuiet

\* checkErrorRateAlert: an alert for an error rate over the threshold
MonitoringManager_createAlert ==
    /\ monitoring.pushed < MaxPushes
    /\ monitoring' = createAlert(monitoring)
    /\ MonitoringQuiet

NextMonitoring ==
    \/ \E slow \in BOOLEAN : MonitoringManager_recordResponse(slow)
    \/ \E c \in BOOLEAN, m \in BOOLEAN : MonitoringManager_systemMetrics(c, m)
    \/ MonitoringManager_createAlert

SpecMonitoring == Init /\ [][NextMonitoring]_vars

SeriesNames == {"times", "cpuUsage", "memoryUsage", "alerts"}
CapOf(f) ==
    CASE f = "times" -> ResponseTimesCap
      [] f = "alerts" -> AlertsCap
      [] OTHER -> SamplesCap

\* the series new is the series old after pushes made since `before', the
\* entries dropped being the oldest ones and dropped only from a full series
OldestEvicted(old, new, before, cap) ==
    \E d \in 0..Len(old) :
        /\ Len(new) >= Len(old) - d
        /\ \A k \in 1..Len(new) :
              IF k <= Len(old) - d THEN new[k] = old[d + k]
              ELSE new[k] > before
        /\ \A k \in 1..(Len(new) - 1) : new[k] < new[k + 1]
        /\ d > 0 => Len(new) = cap

\* C29: the response-time series, the CPU and memory series and the alert
\* log never hold more entries than their capacities; the entry pushed last
\* is the last entry of its series; and a step that adds to a series drops
\* entries only from a full series, the oldest ones first.
C29_BoundedOldestFirst ==
    /\ [](\A f \in SeriesNames : Len(monitoring[f]) <= CapOf(f))
    /\ [](monitoring.pushed > 0 =>
             \E f \in SeriesNames :
                 /\ monitoring[f] # <<>>
                 /\ monitoring[f][Len(monitoring[f])] = monitoring.pushed)
    /\ [][\A f \in SeriesNames :
             OldestEvicted(monitoring[f], monitoring'[f], monitoring.pushed,
                           CapOf(f))]_vars

\* more responses recorded than the series holds, the oldest one gone, and
\* the alert log full
C29_Witness ==
    /\ monitoring.total > ResponseTimesCap
    /\ Len(monitoring.times) = ResponseTimesCap
    /\ monitoring.times[1] > 1
    /\ Len(monitoring.alerts) = AlertsCap

----------------------------------------------------------------------------
(* SecurityManager *)

\* more than 10 violations within one hour, of the last 100 kept per IP, in
\* the source: scaled
ViolationThreshold == 2
ViolationWindow == 1000
ViolationsCap == 4

\* the threshold reached rather than passed
tooMany_AtThreshold(n) == n >= ViolationThreshold

\* recentViolations.length > 10
tooMany(n) == n > ViolationThreshold

\* violations.filter(v => Date.now() - v.timestamp < 3600000).length
recentViolations(violations, t) ==
    Cardinality({k \in DOMAIN violations : t - violations[k] < ViolationWindow})

\* recordViolation(ip, type) at time t
recordViolation(s, ip, t) ==
    LET pushed == Append(s.securityViolations[ip], t)
        violations == IF Len(pushed) > ViolationsCap THEN Tail(pushed) ELSE pushed
    IN  [s EXCEPT
            !.securityViolations[ip] = violations,
            !.blacklistedIPs =
                IF tooMany(recentViolations(violations, t)) /\ ip \notin @
                THEN @ \cup {ip} ELSE @]

\* recordViolation for each of n threats
RECURSIVE recordViolations(_, _, _, _)
recordViolations(s, ip, t, n) ==
    IF n = 0 THEN s
    ELSE recordViolation(recordViolations(s, ip, t, n - 1), ip, t)

\* checkIPAccess(req): the state it leaves and whether the request may pass
checkIPAccess(s, ip, t) ==
    IF s.whitelistedIPs # {}
    THEN [security |-> s, allowed |-> ip \in s.whitelistedIPs]
    ELSE IF ip \in s.blacklistedIPs
    THEN [security |-> recordViolation(s, ip, t), allowed |-> FALSE]
    ELSE [security |-> s, allowed |-> TRUE]

SecurityQuiet == UNCHANGED <<breakerVars, app, started, requestVars, router,
                             cache, ghostVars, quotas, quotaResult, admitted,
                             written, observed, healthVars, registry, auth,
                             authResult, plugins, monitoring, lateVars>>

\* new SecurityManager(config): the allow-list of the configuration
SecurityManager_constructor(whitelist) ==
    /\ ~security.constructed
    /\ security' = [security EXCEPT !.constructed = TRUE,
                                    !.whitelistedIPs = whitelist]
    /\ UNCHANGED now
    /\ SecurityQuiet

\* middleware() for a request from ip: invalid is validateInput throwing a
\* SecurityError, threats the number of threats detectSecurityThreats finds
\* (a path traversal, a suspicious pattern)
SecurityManager_request(ip, invalid, threats) ==
    /\ security.constructed
    /\ LET access == checkIPAccess(security, ip, now)
           s1 == access.security
           s2 == IF access.allowed /\ ~invalid
                 THEN recordViolations(s1, ip, now, threats) ELSE s1
           status == IF access.allowed /\ ~invalid /\ threats = 0
                     THEN 200 ELSE 403
       IN  security' = [s2 EXCEPT
                           !.last = [ip |-> ip, status |-> status,
                                     threats |-> threats,
                                     listed |-> ip \in security.blacklistedIPs]]
    /\ UNCHANGED now
    /\ SecurityQuiet

NextSecurity ==
    \/ Tick
    \/ \E w \in {{}, {"ip1"}} : SecurityManager_constructor(w)
    \/ \E ip \in ClientIPs, invalid \in BOOLEAN, threats \in 0..2 :
          SecurityManager_request(ip, invalid, threats)

SpecSecurity == Init /\ [][NextSecurity]_vars

\* C30: a step puts an IP on the deny list exactly when the IP is not on it
\* and, with the violations of that step, has more than the threshold of
\* violations within the window; no IP leaves the list; and with an empty
\* allow-list a request from an IP on the deny list is answered 403.
C30_AutoDeny ==
    /\ [][\A ip \in ClientIPs :
             /\ (ip \in security'.blacklistedIPs /\ ip \notin security.blacklistedIPs)
                <=> (/\ ip \notin security.blacklistedIPs
                     /\ Len(security'.securityViolations[ip]) > 0
                     /\ security'.securityViolations[ip] # security.securityViolations[ip]
                     /\ recentViolations(security'.securityViolations[ip], now')
                            > ViolationThreshold)
             /\ ip \in security.blacklistedIPs => ip \in security'.blacklistedIPs]_vars
    /\ []((/\ security.last.ip \in security.blacklistedIPs
           /\ security.whitelistedIPs = {})
          => security.last.status = 403)

\* a request without a threat from an IP that was already on the deny list,
\* with an empty allow-list, was answered 403
C30_Witness ==
    /\ security.whitelistedIPs = {}
    /\ security.last.listed /\ security.last.threats = 0
    /\ security.last.status = 403

----------------------------------------------------------------------------
(* Further properties of the circuit breaker *)

\* C33: a CLOSED circuit never holds errorCount failures in a row: in CLOSED
\* a success sets failures to 0, so failures is the number of failures since
\* the last success, and the failure that brings it to errorCount opens the
\* circuit whatever the number of successes recorded before.
C33_FailuresInARowOpen ==
    \A s \in Known :
        Circuit(s).state = "CLOSED" =>
            Circuit(s).failures < Circuit(s).config.errorCount

\* C32: a call admitted by execute records one outcome, a success or a
\* failure, in the step in which it stops waiting; once the circuit's timeout
\* has passed that outcome is a failure with the timeout error, which raises
\* failures and totalTimeouts by one; the result or error of the abandoned
\* call, when it arrives, changes neither the circuits nor the statistics,
\* and a finished call records nothing more.
C32_OneOutcome ==
    [][\A id \in CallIds :
          /\ (/\ calls[id].st = "inflight" /\ calls[id].via = "execute"
              /\ calls'[id].st # "inflight")
             => LET s == calls[id].svc
                IN  /\ last'.op \in {"success", "failure"} /\ last'.svc = s
                    /\ (last'.outcome = "timeout") <=> (calls'[id].st = "abandoned")
                    /\ last'.outcome # "timeout" => calls'[id].st = "done"
                    /\ now - calls[id].start > circuits[s].config.timeout
                       => /\ last'.op = "failure" /\ last'.outcome = "timeout"
                          /\ circuits'[s].failures = circuits[s].failures + 1
                          /\ stats'[s].totalTimeouts = stats[s].totalTimeouts + 1
          /\ (calls[id].st = "abandoned" /\ calls'[id] # calls[id])
             => /\ circuits' = circuits /\ stats' = stats
                /\ calls'[id].st = "done"
          /\ calls[id].st = "done" => calls'[id] = calls[id]]_vars

\* the result of a call abandoned at its timeout has arrived, after the
\* timeout had been recorded as a failure and had opened the circuit
C32_Witness ==
    \E s \in Known :
        /\ last.op = "late" /\ last.svc = s
        /\ stats[s].totalTimeouts >= 1
        /\ Circuit(s).state = "OPEN"
        /\ \E id \in CallIds : calls[id].st = "done"

\* C39: a call admitted while its circuit was CLOSED that completes while
\* the circuit is HALF_OPEN leaves the circuit as it is: it neither counts
\* toward closing it nor opens it again.
C39_OnlyHalfOpenCallsCount ==
    [][\A id \in CallIds :
          LET s == calls[id].svc
          IN  (/\ calls[id].st = "inflight" /\ calls[id].via = "execute"
               /\ calls[id].admittedIn = "CLOSED"
               /\ calls'[id].st # "inflight"
               /\ circuits[s].state = "HALF_OPEN")
              => circuits'[s] = circuits[s]]_vars


-----------------------------------------------------------------------------
(* The plugin manager: loading and unloading, and the context of a hook    *)

\* the number of handlers one hook may have in the runs followed
MaxHandlers == 3

\* what a handler does with the context it is given: it throws, returns
\* nothing, or returns an object (a handler that returns the context it was
\* given, as the plugins of the plugin directory do, merges the context
\* with itself, which is the context after a handler that returns nothing)
Overrides == {("x" :> 1), ("x" :> 2)}
HandlerResults ==
    {[kind |-> k, object |-> <<>>] : k \in {"throw", "undefined"}}
        \cup {[kind |-> "object", object |-> o] : o \in Overrides}

\* the context executeHook is called with
HookContext == ("req" :> 0)

\* { ...modifiedContext, ...result }
Merge(modifiedContext, result) == result @@ modifiedContext

\* the context after a handler has settled
afterHandler(modifiedContext, b) ==
    IF b.kind = "object" THEN Merge(modifiedContext, b.object)
    ELSE modifiedContext

\* the loop of executeHook letting the error of a handler end the call
RECURSIVE forEachHook_Rethrow(_, _, _, _)
forEachHook_Rethrow(hooks, behaviours, context, n) ==
    IF n = 0 THEN [seen |-> <<>>, context |-> context, threw |-> FALSE]
    ELSE LET r == forEachHook_Rethrow(hooks, behaviours, context, n - 1)
         IN  IF r.threw THEN r
             ELSE [seen |-> Append(r.seen, [name |-> hooks[n],
                                            context |-> r.context]),
                   context |-> afterHandler(r.context, behaviours[n]),
                   threw |-> behaviours[n].kind = "throw"]

\* the loop of executeHook over the first n handlers of the hook: the
\* contexts the handlers were given, and the context after the last of them
RECURSIVE forEachHook(_, _, _, _)
forEachHook(hooks, behaviours, context, n) ==
    IF n = 0 THEN [seen |-> <<>>, context |-> context, threw |-> FALSE]
    ELSE LET r == forEachHook(hooks, behaviours, context, n - 1)
         IN  [seen |-> Append(r.seen, [name |-> hooks[n], context |-> r.context]),
              context |-> afterHandler(r.context, behaviours[n]),
              threw |-> r.threw]

\* executeHook(hookName, context) with the handlers behaving as behaviours
\* says: what was invoked with which context, and what the call returned
executeHookWith(p, hookName, context, behaviours) ==
    IF ~p.initialized \/ hookName \notin DOMAIN p.pluginHooks
    THEN [seen |-> <<>>, context |-> context, threw |-> FALSE]
    ELSE forEachHook(p.pluginHooks[hookName], behaviours, context,
                     Len(p.pluginHooks[hookName]))

\* hooks.findIndex(h => h.name === name), 0 for -1
RECURSIVE findIndex(_, _, _)
findIndex(hooks, name, n) ==
    IF n > Len(hooks) THEN 0
    ELSE IF hooks[n] = name THEN n
    ELSE findIndex(hooks, name, n + 1)

\* hooks.splice(index, 1)
splice(hooks, index) ==
    SubSeq(hooks, 1, index - 1) \o SubSeq(hooks, index + 1, Len(hooks))

\* loadPlugin(name, filePath) of a file of the plugin directory
loadPlugin(p, name) ==
    [p EXCEPT !.pluginHooks = registerPluginHooks(@, name),
              !.loadedPlugins = @ \cup {name},
              !.gone = @ \ {name},
              !.run = [NoRun EXCEPT !.op = "loadPlugin"]]

\* unloadPlugin(name): false for a plugin that is not loaded or whose
\* cleanup throws; otherwise one handler of that name leaves each hook
unloadPlugin(p, name, cleanupThrows) ==
    IF name \notin p.loadedPlugins \/ cleanupThrows
    THEN [p EXCEPT !.run = [NoRun EXCEPT !.op = "unloadPlugin"]]
    ELSE [p EXCEPT
             !.pluginHooks =
                 [h \in DOMAIN @ |->
                     LET index == findIndex(@[h], name, 1)
                     IN  IF index # 0 THEN splice(@[h], index) ELSE @[h]],
             !.loadedPlugins = @ \ {name},
             !.gone = @ \cup {name},
             !.run = [NoRun EXCEPT !.op = "unloadPlugin"]]

\* there is room for the handlers of one more plugin
Room(p, name) ==
    \A h \in DOMAIN p.pluginHooks :
        h \in HookMethods[name] => Len(p.pluginHooks[h]) < MaxHandlers

PluginNames == {PluginFiles[n] : n \in DOMAIN PluginFiles}

PluginManager_loadPlugin(name) ==
    /\ Room(plugins, name)
    /\ plugins' = loadPlugin(plugins, name)
    /\ PluginQuiet

PluginManager_unloadPlugin(name, cleanupThrows) ==
    /\ plugins' = unloadPlugin(plugins, name, cleanupThrows)
    /\ PluginQuiet

\* reloadPlugin(name): unloadPlugin, then loadPlugin
PluginManager_reloadPlugin(name, cleanupThrows) ==
    /\ Room(unloadPlugin(plugins, name, cleanupThrows), name)
    /\ plugins' = [loadPlugin(unloadPlugin(plugins, name, cleanupThrows), name)
                      EXCEPT !.run = [NoRun EXCEPT !.op = "reloadPlugin"]]
    /\ PluginQuiet

\* the number of handlers of a hook
HandlerCount(hookName) ==
    IF hookName \in DOMAIN plugins.pluginHooks
    THEN Len(plugins.pluginHooks[hookName]) ELSE 0

\* executeHook(hookName, context); it changes nothing of the manager and
\* the record of a call is replaced by the next one, so a call directly
\* after another reaches no state the first does not reach
PluginManager_executeHookWith(hookName, behaviours) ==
    /\ plugins.run.op # "executeHook"
    /\ DOMAIN behaviours = 1..HandlerCount(hookName)
    /\ LET r == executeHookWith(plugins, hookName, HookContext, behaviours)
       IN  plugins' = [plugins EXCEPT
                          !.run = [op |-> "executeHook", hookName |-> hookName,
                                   context |-> HookContext,
                                   behaviours |-> behaviours,
                                   seen |-> r.seen, returned |-> r.context,
                                   threw |-> r.threw]]
    /\ PluginQuiet

NextPlugins ==
    \/ PluginManager_initialize
    \/ \E name \in PluginNames : PluginManager_loadPlugin(name)
    \/ \E name \in PluginNames, cleanupThrows \in BOOLEAN :
           PluginManager_unloadPlugin(name, cleanupThrows)
    \/ \E name \in PluginNames, cleanupThrows \in BOOLEAN :
           PluginManager_reloadPlugin(name, cleanupThrows)
    \/ \E h \in Hooks :
           \E behaviours \in [1..HandlerCount(h) -> HandlerResults] :
               PluginManager_executeHookWith(h, behaviours)

SpecPlugins == Init /\ [][NextPlugins]_vars

\* the names with a handler under some hook
Registered ==
    UNION {{plugins.pluginHooks[h][n] : n \in DOMAIN plugins.pluginHooks[h]} :
              h \in DOMAIN plugins.pluginHooks}

\* C38: once unloadPlugin(name) has returned true and the plugin has not
\* been loaded again, no hook has a handler of that plugin, and a call of
\* executeHook invokes none.
C38_UnloadRemovesHandlers ==
    /\ plugins.gone \cap Registered = {}
    /\ plugins.run.op = "executeHook" =>
           \A n \in DOMAIN plugins.run.seen :
               plugins.run.seen[n].name \notin plugins.gone

\* the context a handler leaves when it is given context c
Left(c, b) == IF b.kind = "object" THEN b.object @@ c ELSE c

\* C34: executeHook invokes the handlers of the hook in the order of their
\* registration; the first is given the context of the call and each later
\* one the context the handler before it left, which is the context that
\* handler was given with the object it returned merged in, or that context
\* unchanged when it threw or returned none; every handler runs whatever the
\* ones before it did, the call returns the context the last one left, and
\* it does not throw.
C34_HandlersInOrderIsolated ==
    (plugins.run.op = "executeHook" /\ plugins.initialized) =>
        LET r == plugins.run
            hooks == plugins.pluginHooks[r.hookName]
        IN  /\ ~r.threw
            /\ Len(r.seen) = Len(hooks)
            /\ \A n \in DOMAIN hooks :
                  /\ r.seen[n].name = hooks[n]
                  /\ r.seen[n].context =
                         IF n = 1 THEN r.context
                         ELSE Left(r.seen[n - 1].context, r.behaviours[n - 1])
            /\ r.returned =
                   IF hooks = <<>> THEN r.context
                   ELSE Left(r.seen[Len(hooks)].context, r.behaviours[Len(hooks)])

\* a hook with three handlers has run: the first returned an object, the
\* second threw, and the third was given the context the first left and
\* replaced the value the first had set
C34_Witness ==
    /\ plugins.run.op = "executeHook" /\ plugins.initialized
    /\ Len(plugins.run.seen) = 3
    /\ plugins.run.behaviours[1] = [kind |-> "object", object |-> ("x" :> 1)]
    /\ plugins.run.behaviours[2].kind = "throw"
    /\ plugins.run.behaviours[3] = [kind |-> "object", object |-> ("x" :> 2)]
    /\ plugins.run.seen[3].context = ("x" :> 1) @@ ("req" :> 0)
    /\ plugins.run.returned = ("x" :> 2) @@ ("req" :> 0)
    /\ ~plugins.run.threw

-----------------------------------------------------------------------------
(* Passive and active health: the failure counter of an instance           *)

\* onProxyRes(proxyRes, req, res): three headers are added to the response
\* of the instance and a line is logged; serviceHealth is not touched
onProxyRes(rt, i) == rt

PassiveQuiet ==
    UNCHANGED <<now, breakerVars, app, started, requestVars, cache, ghostVars,
                quotas, quotaResult, admitted, written, observed, healthVars,
                registry, auth, authResult, plugins, monitoring, security,
                sweepTimer, shutdown>>

\* a probe of instance i settles
Probe_settles(i, ok) ==
    /\ ok \/ router.serviceHealth[i].consecutiveFailures < MaxFailures
    /\ router' = checkInstanceHealth(router, i, ok)
    /\ sinceSuccess' = [sinceSuccess EXCEPT ![i] = IF ok THEN 0 ELSE @ + 1]
    /\ PassiveQuiet

\* a request proxied to instance i (one of the healthy instances, which are
\* the ones selectInstance chooses from) ends in the proxy's onError
Proxy_onError(i) ==
    /\ router.serviceHealth[i].isHealthy
    /\ router.serviceHealth[i].consecutiveFailures < MaxFailures
    /\ router' = recordInstanceFailure(router, i)
    /\ sinceSuccess' = [sinceSuccess EXCEPT ![i] = @ + 1]
    /\ PassiveQuiet

\* a request proxied to instance i is answered by the instance
Proxy_onProxyRes(i) ==
    /\ router.serviceHealth[i].isHealthy
    /\ router' = onProxyRes(router, i)
    /\ sinceSuccess' = [sinceSuccess EXCEPT ![i] = 0]
    /\ PassiveQuiet

NextPassive ==
    \/ \E i \in InstanceKeys, ok \in BOOLEAN : Probe_settles(i, ok)
    \/ \E i \in InstanceKeys : Proxy_onError(i)
    \/ \E i \in InstanceKeys : Proxy_onProxyRes(i)

SpecPassive == Init /\ [][NextPassive]_vars

\* C36: the failure counter of an instance is the number of failures, of
\* probes and of proxied requests alike, since its last success of either
\* kind, and an instance that is marked unhealthy has had three failures
\* with no success in between.
C36_SharedCounterResetBySuccess ==
    \A i \in InstanceKeys :
        /\ router.serviceHealth[i].consecutiveFailures = sinceSuccess[i]
        /\ ~router.serviceHealth[i].isHealthy => sinceSuccess[i] >= 3

-----------------------------------------------------------------------------
(* Threat detection: the patterns of config.suspiciousPatterns             *)

\* A string is taken as the sequence of its words and a match as one word.
\* The three patterns carry the g flag, so each is one RegExp object whose
\* lastIndex (security.lastIndex, counted in words) lives as long as the
\* manager.  Of the words used here the second pattern matches
\* "description" (it contains "script") and the third "../"; none is
\* matched by the first.
suspiciousPatterns == <<{}, {"description"}, {"../"}>>

\* the requests scanned: keys of the body and values of the headers that
\* validateInput accepts (it looks at values of the query and the body,
\* and for whole words) and sanitizeInput leaves as they are (headers are
\* only trimmed)
ThreatRequests ==
    [path : {<<"api", "users">>},
     query : {<<>>},
     body : {<<"name">>, <<"name", "description">>},
     headers : {<<"agent">>, <<"agent", "../">>}]

\* JSON.stringify({ query, body, headers })
stringify(r) == r.query \o r.body \o r.headers

\* pattern.test(input) of a pattern with the g flag: the search starts at
\* lastIndex; a match leaves lastIndex at its end, no match leaves 0
test(lastIndex, words, input) ==
    LET hits == {p \in DOMAIN input : p > lastIndex /\ input[p] \in words}
    IN  IF hits = {} THEN [found |-> FALSE, lastIndex |-> 0]
        ELSE [found |-> TRUE,
              lastIndex |-> CHOOSE p \in hits : \A q \in hits : p <= q]

\* for (const pattern of suspiciousPatterns) if (pattern.test(input)) break
RECURSIVE anyPattern(_, _, _)
anyPattern(lastIndex, input, k) ==
    IF k > Len(suspiciousPatterns) THEN [found |-> FALSE, lastIndex |-> lastIndex]
    ELSE LET r == test(lastIndex[k], suspiciousPatterns[k], input)
         IN  IF r.found
             THEN [found |-> TRUE,
                   lastIndex |-> [lastIndex EXCEPT ![k] = r.lastIndex]]
             ELSE anyPattern([lastIndex EXCEPT ![k] = 0], input, k + 1)

\* detectPathTraversal(req.path): its patterns are made anew at each call
detectPathTraversal(path) == \E n \in DOMAIN path : path[n] = ".."

\* detectSecurityThreats(req): the number of threats and the patterns after
detectSecurityThreats(s, r) ==
    LET a == anyPattern(s.lastIndex, stringify(r), 1)
    IN  [threats |-> (IF detectPathTraversal(r.path) THEN 1 ELSE 0)
                         + (IF a.found THEN 1 ELSE 0),
         lastIndex |-> a.lastIndex]

\* middleware() for request r from ip: checkIPAccess, validateInput and
\* sanitizeInput (which pass r on as it is), detectSecurityThreats
SecurityManager_scan(ip, r) ==
    /\ security.constructed
    /\ LET access == checkIPAccess(security, ip, now)
           s1 == access.security
           d == detectSecurityThreats(s1, r)
           s2 == IF access.allowed
                 THEN [recordViolations(s1, ip, now, d.threats) EXCEPT
                          !.lastIndex = d.lastIndex,
                          !.verdicts = @ \cup {<<r, d.threats > 0>>}]
                 ELSE s1
           status == IF access.allowed /\ d.threats = 0 THEN 200 ELSE 403
       IN  security' = [s2 EXCEPT
                           !.last = [ip |-> ip, status |-> status,
                                     threats |-> IF access.allowed
                                                 THEN d.threats ELSE 0,
                                     listed |-> ip \in security.blacklistedIPs]]
    /\ UNCHANGED now
    /\ SecurityQuiet

NextThreats ==
    \/ \E w \in {{}, {"ip1"}} : SecurityManager_constructor(w)
    \/ \E ip \in ClientIPs, r \in ThreatRequests :
          SecurityManager_scan(ip, r)

SpecThreats == Init /\ [][NextThreats]_vars

\* C40: whenever threat detection has scanned a request, it has given the
\* request the verdict it gave it at every earlier scan.
C40_VerdictOfRequestAlone ==
    \A x \in security.verdicts, y \in security.verdicts :
        x[1] = y[1] => x[2] = y[2]

-----------------------------------------------------------------------------
(* ApiGateway.stop()                                                       *)

StopQuiet ==
    UNCHANGED <<now, breakerVars, app, started, requestVars, router, ghostVars,
                quotas, quotaResult, admitted, written, observed, probes,
                instanceUp, picked, registry, auth, authResult, monitoring,
                security, sweepTimer, sinceSuccess>>

\* CacheManager.cleanup(): client.quit() when connected, and both maps of
\* the memory tier are cleared
CacheManager_cleanup(c) ==
    [c EXCEPT !.memoryCache = <<>>, !.memoryTTL = <<>>]

\* Router.cleanup(): clearInterval(healthCheckInterval)
Router_cleanup(timer) == -1

\* stop() up to its first await: server.close() stops the server accepting
\* connections; its callback waits for the connections that are open
ApiGateway_stop ==
    /\ app = "gateway" /\ started /\ shutdown = <<>>
    /\ shutdown' = <<"server.close">>
    /\ UNCHANGED <<cache, healthTimer, plugins>>
    /\ StopQuiet

\* the callback of server.close() once no request is in flight, and the rest
\* of stop(): cacheService.cleanup(), monitoringManager.cleanup(),
\* router.cleanup()
ApiGateway_stopped ==
    /\ shutdown = <<"server.close">> /\ pc = "idle"
    /\ cache' = CacheManager_cleanup(cache)
    /\ healthTimer' = Router_cleanup(healthTimer)
    /\ shutdown' = shutdown \o <<"drained", "cacheService.cleanup",
                                 "monitoringManager.cleanup", "router.cleanup">>
    /\ UNCHANGED plugins
    /\ StopQuiet

\* the plugins unloadPlugin is called for by PluginManager.cleanup(): the
\* keys of loadedPlugins, in the order of their insertion
RECURSIVE pluginNames(_, _)
pluginNames(p, n) ==
    IF n = 0 THEN <<>>
    ELSE IF PluginFiles[n] \in p.loadedPlugins
    THEN Append(pluginNames(p, n - 1), PluginFiles[n])
    ELSE pluginNames(p, n - 1)

\* PluginManager.cleanup() called by the program that holds the plugin
\* service, after the gateway has stopped: unloadPlugin, which calls the
\* plugin's cleanup(), for each loaded plugin
PluginManager_cleanup ==
    /\ plugins.initialized
    /\ shutdown # <<>> /\ shutdown[Len(shutdown)] = "router.cleanup"
    /\ shutdown' = shutdown \o pluginNames(plugins, Len(PluginFiles))
    /\ plugins' = [plugins EXCEPT !.initialized = FALSE,
                                  !.pluginHooks = [h \in DOMAIN @ |-> <<>>],
                                  !.loadedPlugins = {}]
    /\ UNCHANGED <<cache, healthTimer>>
    /\ StopQuiet

\* no request arrives at a server that is closed
RequestUntilClosed == (shutdown = <<>> \/ pc # "idle") /\ FirstRequest

\* the plugin service is initialized before the gateway is started
PluginService_initialize == ~started /\ PluginManager_initialize

\* the gateway with its first request, stopped at any moment
NextStop ==
    \/ RequestUntilClosed
    \/ PluginService_initialize
    \/ ApiGateway_stop
    \/ ApiGateway_stopped
    \/ PluginManager_cleanup

SpecStop == Init /\ [][NextStop]_vars

\* where a step is in the record of the shutdown, 0 when it is not there
Pos(step) ==
    IF \E n \in DOMAIN shutdown : shutdown[n] = step
    THEN CHOOSE n \in DOMAIN shutdown : shutdown[n] = step
    ELSE 0

\* C31: when stop() has finished, the server was closed to new connections
\* first, the health-check task was cancelled next, the requests in flight
\* drained after that, the cache was closed after the drain, and then the
\* shutdown of every plugin was invoked, a plugin registered later before
\* one registered earlier.
C31_StopOrder ==
    Pos("router.cleanup") # 0 =>
        /\ Pos("server.close") = 1
        /\ Pos("server.close") < Pos("router.cleanup")
        /\ Pos("router.cleanup") < Pos("drained")
        /\ Pos("drained") < Pos("cacheService.cleanup")
        /\ \A n \in DOMAIN PluginFiles :
               /\ Pos("cacheService.cleanup") < Pos(PluginFiles[n])
               /\ \A m \in 1..(n - 1) : Pos(PluginFiles[n]) < Pos(PluginFiles[m])

-----------------------------------------------------------------------------
(* Further properties of the cache manager                                 *)

\* the interval of the timer of startMemoryCacheCleanup (60000 in the code)
SweepInterval == 500

\* the callback of the timer of startMemoryCacheCleanup: every key of
\* memoryTTL whose expiry has passed leaves both maps
memoryCacheCleanup(c, t) ==
    LET gone == {k \in DOMAIN c.memoryTTL : t > c.memoryTTL[k]}
    IN  [c EXCEPT !.memoryCache = [k \in DOMAIN @ \ gone |-> @[k]],
                  !.memoryTTL = [k \in DOMAIN @ \ gone |-> @[k]]]

SweepQuiet ==
    UNCHANGED <<breakerVars, app, requestVars, router, ghostVars, quotas,
                quotaResult, admitted, healthVars, registry, auth, authResult,
                plugins, monitoring, security, shutdown, sinceSuccess,
                written, observed>>

\* initialize(): startMemoryCacheCleanup() follows the awaited connect(), so
\* the timer is started only when the connection succeeded; a failed
\* connect goes to the catch, which only clears isConnected
CacheManager_initialize(connected) ==
    /\ app = "example" /\ ~started
    /\ started' = TRUE
    /\ cache' = [cache EXCEPT !.initialized = TRUE, !.isConnected = connected]
    /\ sweepTimer' = IF connected THEN now + SweepInterval ELSE -1
    /\ UNCHANGED now
    /\ SweepQuiet

SweepDue == sweepTimer # -1 /\ now >= sweepTimer

\* the timer fires
CacheManager_sweep ==
    /\ SweepDue
    /\ cache' = memoryCacheCleanup(cache, now)
    /\ sweepTimer' = sweepTimer + SweepInterval
    /\ UNCHANGED <<now, started>>
    /\ SweepQuiet

\* time passes once the timer has had its turn
SweepTick == ~SweepDue /\ Tick

\* the manager with its sweeper: sets and gets, the external store coming and
\* going, and the timer
NextSweep ==
    \/ SweepTick
    \/ \E connected \in BOOLEAN : CacheManager_initialize(connected)
    \/ Redis_connect
    \/ Redis_disconnect
    \/ \E k \in StoreKeys, v \in StoreValues, ttl \in StoreTTLs : Manager_set(k, v, ttl)
    \/ \E k \in StoreKeys : Manager_get(k)
    \/ CacheManager_sweep

SpecSweep == InitExample /\ [][NextSweep]_vars

\* C37: while the memory tier is in use, no key stays in it for a sweep
\* interval or longer after its expiry: once the timer has had its turn, a
\* key still in memoryTTL expired less than one interval ago.
C37_SweptWithinInterval ==
    (started /\ ~cache.isConnected /\ ~SweepDue)
    => \A k \in DOMAIN cache.memoryTTL :
           now - cache.memoryTTL[k] < SweepInterval

\* the get of this step is served by getFromMemory
MemoryGet(k) == Manager_get(k) /\ ~cache.isConnected

\* the key has an entry in memoryTTL whose time has passed
Expired(c, k, t) == k \in DOMAIN c.memoryTTL /\ t > c.memoryTTL[k]

\* C35: a get served by the memory tier after the expiry time of the key
\* returns null and leaves the key in neither memoryCache nor memoryTTL, and
\* a get served by the memory tier that returns a value returns the value
\* kept for a key whose expiry time has not passed.
C35_ExpiredNeverReturned ==
    [][\A k \in StoreKeys :
          MemoryGet(k) =>
              /\ Expired(cache, k, now) =>
                     /\ observed'.value = NoValue
                     /\ k \notin DOMAIN cache'.memoryCache
                     /\ k \notin DOMAIN cache'.memoryTTL
              /\ observed'.value # NoValue =>
                     /\ k \in DOMAIN cache.memoryTTL
                     /\ now <= cache.memoryTTL[k]
                     /\ observed'.value = cache.memoryCache[k]]_vars

\* a get of the memory tier has just answered null for a key that was set
\* there and has expired since, and the key is gone from both maps
C35_Witness ==
    /\ observed.op = "get" /\ observed.tier = "memory"
    /\ observed.value = NoValue
    /\ observed.key \in DOMAIN written
    /\ written[observed.key].memory # NoEntry
    /\ now > written[observed.key].memory.until
    /\ observed.key \notin DOMAIN cache.memoryCache
    /\ observed.key \notin DOMAIN cache.memoryTTL

=============================================================================
